---------------------------- MODULE Spec2Model ----------------------------
(***************************************************************************)
(* A model of the PrismStyle dataset tools:                                *)
(*   - tools/deepfashion2/check_deepfashion2_zips.py  (archive checker)    *)
(*   - tools/ml/convert_deepfashion2_to_coco.py       (detection converter)*)
(*   - tools/ml/augment_polyvore_outfits_with_images.py (join step)        *)
(*   - tools/ml/index_polyvore_images.py              (image index)        *)
(*   - tools/ml/ingest_deep_fashion.py                (manifest assembly)  *)
(*   - tools/ml/ingest_polyvore.py                   (outfit ingest)      *)
(* Each tool is a single-threaded program; its loop iterations are the     *)
(* steps of the state machine.  A tool that is not running has its         *)
(* program counter at "off".                                               *)
(***************************************************************************)
EXTENDS Integers, Sequences, FiniteSets, TLC

VARIABLES
    \* ---- check_deepfashion2_zips.py
    zpc,            \* position of main: off | start | loop | checked | ret | done | crashed
    src_is_dir,     \* whether the src_dir argument is a directory
    password,       \* the --password argument
    zi,             \* index of the loop over ZIP_NAMES + OPTIONAL_ZIPS
    failed,         \* main's local `failed`
    report,         \* the printed lines, as <<name, verdict>>
    zarchive,       \* the archive file the last iteration looked at
    zres,           \* what _check_zip did for it
    exit_code,      \* main's return value (NoExit before it returns)
    \* ---- convert_deepfashion2_to_coco.py
    cpc,            \* position of main: off | doc | items | write | done | crashed
    docs,           \* the annotation directory: file name -> parsed document
    images_dir,     \* the names of the files in the image directory
    limit,          \* args.limit
    annos,          \* sorted(annos_dir.glob("*.json")), the part not yet visited
    image_id,       \* main's local image_id
    ann_id,         \* main's local ann_id
    coco_images,    \* coco["images"]
    coco_annotations, \* coco["annotations"]
    coco_categories,  \* coco["categories"]
    cat_id_to_name, \* main's local cat_id_to_name
    cur,            \* the document being processed: its file, its image and the
                    \* number of its (key, value) pairs already iterated
    visited,        \* the documents visited so far, with the image found for each
    \* ---- augment_polyvore_outfits_with_images.py
    jpc,            \* position of main: off | start | lines | done | crashed
    disk,           \* the file system: symbolic links, directories, files
    images_root_exists, \* images_root.exists()
    item_images,    \* the non-blank lines of the index file (parsed, or tagged
                    \* as not JSON)
    mapping,        \* _load_item_map(item_images)
    jn,             \* lines of outfits_in read so far
    fin,            \* the non-blank lines of outfits_in read so far (parsed, or
                    \* tagged as not JSON), the one the run raised at included
    fout,           \* the records written to outfits_out so far
    total_outfits,
    total_items,
    resolved,
    pct,            \* the percentage printed, in tenths (NoPct before it is computed)
    join_error,     \* the exception that ended the run: none | SystemExit |
                    \* JSONDecodeError | AttributeError | RuntimeError |
                    \* ZeroDivisionError
    \* ---- index_polyvore_images.py
    ipc,            \* position of main: off | start | walk | done | crashed
    layout,         \* what --images-root points at
    tree,           \* the base images folder: entry name -> directory or file
    out_file,       \* the lines of the index file on disk
    todo,           \* the <<set_dir, jpg>> pairs the two loops still visit
    written,        \* main's local `written`
    runs,           \* runs of the tool started so far
    run_tree,       \* the tree as it was when the current run started
    prev_tree,      \* the tree as it was when the run before started
    prev_out,       \* the index file as the run before left it
    \* ---- ingest_deep_fashion.py
    dpc,            \* position of main: off | start | emit | done | crashed
    root_exists,    \* dataset_root.exists()
    split_dirs,     \* images/<split>: whether it exists and the names in it
    csv_exists,     \* whether purchase_history.csv exists
    rows,           \* _load_purchase_history(dataset_root)
    images,         \* _iter_images(dataset_root)
    ordered,        \* the part of `ordered` the loop has not visited yet
    manifest,       \* the records written to out_manifest
    split_counts,
    with_meta,
    missing_meta,
    category_counts,
    style_counts,
    \* ---- ingest_deep_fashion.py: _repair_purchase_history_csv
    rpc,            \* position in the function: off | fast | scan | done
    raw,            \* the bytes of purchase_history.csv
    text,           \* the local `text`
    csv_lines,      \* the local `lines`
    header_lines,   \* the local `header_lines`
    repaired,       \* the value returned
    via,            \* the return statement taken: fast | empty | scan | fallback
    \* ---- ingest_deep_fashion.py: _load_purchase_history
    lpc,            \* position in the function: off | read | header | rows | done | crashed
    csv_raw,        \* path.read_bytes()
    csv_text,       \* the local `repaired`
    reader_lines,   \* the lines of io.StringIO(repaired) the reader has not read
    fieldnames,     \* reader.fieldnames
    records,        \* what the csv reader returned for each line after the header
    loaded,         \* the local `rows`
    \* ---- ingest_polyvore.py
    ppc,            \* position of main: off | start | splits | fitb | compat | done | crashed
    poly_root_exists, \* root.exists()
    split_files,    \* file name -> the split file: present or not, a list or not, its outfits
    fitb_files,     \* file name -> the FITB file: present or not, its questions
    compat_files,   \* the names of the compatibility files present
    psplit,         \* index of the loop over split_map
    out_outfits,    \* the outfits manifest: whether it exists, its lines
    out_fitb,       \* the FITB manifest: whether it exists, its lines
    failure,        \* what ended the run: none | root | split | json | structure |
                    \* not_a_dict | fitb | not_iterable | compat
    outfits_written,
    items_written,
    fitb_written

zipVars == <<zpc, src_is_dir, password, zi, failed, report, zarchive, zres, exit_code>>
cocoVars == <<cpc, docs, images_dir, limit, annos, image_id, ann_id, coco_images,
              coco_annotations, coco_categories, cat_id_to_name, cur, visited>>
joinVars == <<jpc, disk, images_root_exists, item_images, mapping, jn, fin,
              fout, total_outfits, total_items, resolved, pct, join_error>>
indexVars == <<ipc, layout, tree, out_file, todo, written, runs, run_tree,
               prev_tree, prev_out>>
ingestVars == <<dpc, root_exists, split_dirs, csv_exists, rows, images, ordered,
                manifest, split_counts, with_meta, missing_meta,
                category_counts, style_counts>>
repairVars == <<rpc, raw, text, csv_lines, header_lines, repaired, via>>
loadVars == <<lpc, csv_raw, csv_text, reader_lines, fieldnames, records, loaded>>
polyVars == <<ppc, poly_root_exists, split_files, fitb_files, compat_files,
              psplit, out_outfits, out_fitb, failure, outfits_written,
              items_written, fitb_written>>
vars == <<zipVars, cocoVars, joinVars, indexVars, ingestVars, repairVars,
          loadVars, polyVars>>

\* ------------------------------------------------------------------------
\* Generic helpers: Python built-ins the tools use.

\* str.endswith / bytes.endswith on a sequence of characters.
EndsWith(s, suf) ==
    /\ Len(s) >= Len(suf)
    /\ SubSeq(s, Len(s) - Len(suf) + 1, Len(s)) = suf

\* x in <list>
InList(x, l) == \E i \in 1..Len(l) : l[i] = x

Last(s) == s[Len(s)]

\* ------------------------------------------------------------------------
\* Bounds of the model.

\* longest archive listing explored
MaxEntries == 2

\* ========================================================================
\* check_deepfashion2_zips.py

ZIP_NAMES == <<"train.zip", "validation.zip", "test.zip">>
OPTIONAL_ZIPS == <<"json_for_validation.zip">>

NoExit == -1

\* Python's None where a file name is expected (`str | None`).  No entry the
\* picker can return has an empty name: it ends in ".json".
None == <<>>

DotJson == <<".", "j", "s", "o", "n">>

\* Entry names explored: an annotation, an image, a directory, a directory
\* whose name carries the annotation extension.
EntryNames ==
    { <<"a">> \o DotJson,
      <<"b">> \o DotJson,
      <<"a", ".", "j", "p", "g">>,
      <<"d">> \o DotJson \o <<"/">> }

\* general-purpose bit flags explored: none, bit 0 (encrypted), bit 3 (data
\* descriptor, not encrypted), bits 0 and 6 (strong encryption, which the
\* archive library does not implement).
FlagBits == {0, 1, 8, 65}

Entries == [filename : EntryNames, flag_bits : FlagBits]

Listings == UNION { [1..n -> Entries] : n \in 0..MaxEntries }

\* the bytes 0x0B (vertical tab) and 0x0C (form feed)
VT == ""
FF == "\f"

\* Decrypted payloads explored, as byte sequences.
Payloads == { <<>>, <<"{">>, <<" ", VT, "[">>, <<FF, "{">>, <<" ">>, <<"x">> }

CorrectPassword == "2019Deepfashion2**"
\* --password "": setpassword keeps no password for it
NoPassword == ""
Passwords == {CorrectPassword, "wrong", NoPassword}

\* Faults of the archive file itself: none; not a zip / truncated directory
\* (open fails); entry data that fail the CRC; a damaged CRC field, whose
\* high byte is what the password check compares; a corrupt deflate stream; a
\* compression method the archive library does not implement.
Faults == {"none", "badzip", "crc", "check", "zlib", "method"}

\* the faults of the data of an entry
EntryFaults == Faults \ {"none", "badzip"}

\* What reading an encrypted entry with a wrong password raises.  The
\* password check compares one byte of the decrypted header (two for AES), so
\* it rejects most wrong passwords with a RuntimeError and lets a few
\* through; the bytes decrypted with the wrong key then fail the CRC or
\* authentication check (BadZipFile) or the inflater (zlib.error).  Which
\* one happens depends on the bytes of the archive.
WrongPasswordOutcomes == {"RuntimeError", "BadZipFile", "zlib.error"}

NoArchive ==
    [exists |-> FALSE, fault |-> "none", listing |-> <<>>, payload |-> <<>>,
     wrong_pw |-> "RuntimeError"]

\* The files explored at src / name: none; a file that does not open as an
\* archive; an archive whose entry data is damaged; a sound archive with each
\* payload; a sound archive on which a wrong password gets past the password
\* check.  A run observes either the payload and the damage (the password
\* is right or the entry read is not encrypted) or the outcome of the wrong
\* password, never both, so the fields it cannot observe are fixed.
Archives ==
    {NoArchive} \cup
    [exists : {TRUE}, fault : {"badzip"}, listing : {<<>>}, payload : {<<>>},
     wrong_pw : {"RuntimeError"}] \cup
    [exists : {TRUE}, fault : EntryFaults, listing : Listings,
     payload : {<<>>}, wrong_pw : {"RuntimeError"}] \cup
    [exists : {TRUE}, fault : {"none"}, listing : Listings,
     payload : Payloads, wrong_pw : {"RuntimeError"}] \cup
    [exists : {TRUE}, fault : {"none"}, listing : Listings,
     payload : {<<"{">>}, wrong_pw : WrongPasswordOutcomes \ {"RuntimeError"}]

\* ZipInfo.is_dir(): the name ends in "/".
is_dir(info) == Last(info.filename) = "/"

\* info.flag_bits & 0x1
EncryptedBit(info) == info.flag_bits % 2

RECURSIVE pick_any_flag(_, _)
\* mutant: any non-zero flag counts as encrypted
pick_any_flag(infolist, i) ==
    IF i > Len(infolist) THEN None
    ELSE IF is_dir(infolist[i]) THEN pick_any_flag(infolist, i + 1)
    ELSE IF ~EndsWith(infolist[i].filename, DotJson) THEN pick_any_flag(infolist, i + 1)
    ELSE IF infolist[i].flag_bits # 0 THEN infolist[i].filename
    ELSE pick_any_flag(infolist, i + 1)

RECURSIVE pick_from(_, _)
\* the loop of _pick_encrypted_json from position i of zf.infolist()
pick_from(infolist, i) ==
    IF i > Len(infolist) THEN None
    ELSE IF is_dir(infolist[i]) THEN pick_from(infolist, i + 1)
    ELSE IF ~EndsWith(infolist[i].filename, DotJson) THEN pick_from(infolist, i + 1)
    ELSE IF EncryptedBit(infolist[i]) # 0 THEN infolist[i].filename
    ELSE pick_from(infolist, i + 1)

_pick_encrypted_json_any_flag(infolist) == pick_any_flag(infolist, 1)

_pick_encrypted_json(infolist) == pick_from(infolist, 1)

\* the bytes bytes.lstrip() removes: space, \t, \n, \r, \x0b, \x0c
AsciiWhitespace == {" ", "\t", "\n", "\r", VT, FF}

\* bytes.lstrip(): drop leading ASCII whitespace
lstrip(data) ==
    LET kept == { i \in 1..Len(data) : data[i] \notin AsciiWhitespace }
    IN  IF kept = {} THEN <<>>
        ELSE SubSeq(data, CHOOSE i \in kept : \A j \in kept : i <= j, Len(data))

\* data[:1]
Head1(data) == IF data = <<>> THEN <<>> ELSE <<data[1]>>

\* What one call computes: a returned (ok, msg) pair or a raised exception.
\* `sample` is the entry named in the message, `did_read` whether zf.read
\* ran, `exc` the exception raised inside the try block ("-" for none).
Return(ok, msg, sample, did_read) ==
    [kind |-> "return", ok |-> ok, msg |-> msg, sample |-> sample,
     did_read |-> did_read, exc |-> "-"]
Raise(exc, sample, did_read) ==
    [kind |-> "raise", ok |-> FALSE, msg |-> "-", sample |-> sample,
     did_read |-> did_read, exc |-> exc]

\* ZipFile.getinfo(name): the name table keeps, for a name that occurs more
\* than once in the listing, the entry that comes last.
getinfo(infolist, name) ==
    LET i == CHOOSE k \in 1..Len(infolist) :
                 /\ infolist[k].filename = name
                 /\ \A j \in (k + 1)..Len(infolist) : infolist[j].filename # name
    IN  infolist[i]

\* flag_bits & mask, for a mask of one bit
FlagSet(info, mask) == (info.flag_bits \div mask) % 2 = 1

\* zf.read(name) after zf.setpassword(password): the payload, or the
\* exception the archive library raises.  Flag bit 5 (patched data) and flag
\* bit 6 (strong encryption) are refused with a NotImplementedError before
\* anything is decrypted; the password matters for an entry with flag bit 0
\* only, and without a password such an entry is refused with a RuntimeError;
\* an unknown compression method is a NotImplementedError; a password check
\* that fails, also on a damaged check byte, is a RuntimeError; a bad CRC is
\* a BadZipFile and a corrupt stream a zlib.error.
ZfRead(a, name, pw) ==
    LET zinfo == getinfo(a.listing, name) IN
    IF FlagSet(zinfo, 32) \/ FlagSet(zinfo, 64)
    THEN [exc |-> "NotImplementedError", data |-> <<>>]
    ELSE IF EncryptedBit(zinfo) # 0 /\ pw = NoPassword
    THEN [exc |-> "RuntimeError", data |-> <<>>]
    ELSE IF a.fault = "method"
    THEN [exc |-> "NotImplementedError", data |-> <<>>]
    ELSE IF EncryptedBit(zinfo) # 0 /\ pw # CorrectPassword
    THEN [exc |-> a.wrong_pw, data |-> <<>>]
    ELSE IF a.fault = "check" /\ EncryptedBit(zinfo) # 0
    THEN [exc |-> "RuntimeError", data |-> <<>>]
    ELSE IF a.fault \in {"crc", "check"}
    THEN [exc |-> "BadZipFile", data |-> <<>>]
    ELSE IF a.fault = "zlib" THEN [exc |-> "zlib.error", data |-> <<>>]
    ELSE [exc |-> "-", data |-> a.payload]

\* the body of the try block of _check_zip
TryBody(a, pw) ==
    IF a.fault = "badzip" THEN Raise("BadZipFile", None, FALSE)
    ELSE LET target == _pick_encrypted_json(a.listing) IN
         IF target = None
         THEN Return(FALSE, "no encrypted json entries found (unexpected)", None, FALSE)
         ELSE LET r == ZfRead(a, target, pw) IN
              IF r.exc # "-" THEN Raise(r.exc, target, TRUE)
              ELSE IF r.data = <<>> THEN Return(FALSE, "read 0 bytes", target, TRUE)
              ELSE IF Head1(lstrip(r.data)) \notin {<<"{">>, <<"[">>}
                   THEN Return(FALSE, "decrypted bytes do not look like JSON", target, TRUE)
              ELSE Return(TRUE, "ok", target, TRUE)

\* isinstance(e, RuntimeError): NotImplementedError is a subclass
IsRuntimeError(exc) == exc \in {"RuntimeError", "NotImplementedError"}

\* a handler's return statement; the record keeps the exception it caught
Caught(r, msg) ==
    [Return(FALSE, msg, r.sample, r.did_read) EXCEPT !.exc = r.exc]

\* mutant: only the RuntimeError handler, no `except Exception`
Handlers_runtime_only(r) ==
    IF r.kind = "raise" /\ IsRuntimeError(r.exc)
    THEN Caught(r, "decrypt/read failed")
    ELSE r

\* the two except clauses of _check_zip
Handlers(r) ==
    IF r.kind # "raise" THEN r
    ELSE IF IsRuntimeError(r.exc) THEN Caught(r, "decrypt/read failed")
    ELSE Caught(r, "error")

_check_zip(a, pw) ==
    IF ~a.exists THEN Return(FALSE, "missing", None, FALSE)
    ELSE Handlers(TryBody(a, pw))

AllZips == ZIP_NAMES \o OPTIONAL_ZIPS

\* mutant: an absent archive is skipped whether optional or not
Verdict_skip_any_absent(name, a, r) ==
    IF r.ok THEN "OK"
    ELSE IF ~a.exists THEN "SKIP"
    ELSE "FAIL"

\* the line main prints for one archive
Verdict(name, a, r) ==
    IF r.ok THEN "OK"
    ELSE IF InList(name, OPTIONAL_ZIPS) /\ ~a.exists THEN "SKIP"
    ELSE "FAIL"

NoResult == Return(FALSE, "-", None, FALSE)

ZipIdle ==
    /\ zpc = "off" /\ src_is_dir = FALSE /\ password = NoPassword /\ zi = 0
    /\ failed = FALSE /\ report = <<>> /\ zarchive = NoArchive
    /\ zres = NoResult /\ exit_code = NoExit

ZipInit ==
    /\ zpc = "start"
    /\ src_is_dir \in BOOLEAN
    /\ password \in Passwords
    /\ zi = 1
    /\ failed = FALSE
    /\ report = <<>>
    /\ zarchive = NoArchive
    /\ zres = NoResult
    /\ exit_code = NoExit

\* main up to the loop: the directory test
ZipStart ==
    /\ zpc = "start"
    /\ IF src_is_dir
       THEN zpc' = "loop" /\ exit_code' = exit_code
       ELSE zpc' = "done" /\ exit_code' = 2
    /\ UNCHANGED <<src_is_dir, password, zi, failed, report, zarchive, zres>>
    /\ UNCHANGED <<cocoVars, joinVars, indexVars, ingestVars, repairVars,
                   loadVars, polyVars>>

\* lines 92-101: the body of `for name in ZIP_NAMES + OPTIONAL_ZIPS`, for any
\* file (or none) at src / name
ZipCheck ==
    /\ zpc = "loop"
    /\ \E a \in Archives :
        LET name == AllZips[zi]
            r == _check_zip(a, password)
            v == Verdict(name, a, r)
        IN  /\ zarchive' = a
            /\ zres' = r
            /\ IF r.kind = "raise"
               THEN /\ zpc' = "crashed"
                    /\ UNCHANGED <<failed, report>>
               ELSE /\ report' = Append(report, <<name, v>>)
                    /\ failed' = (failed \/ v = "FAIL")
                    /\ zpc' = "checked"
    /\ UNCHANGED <<src_is_dir, password, zi, exit_code>>
    /\ UNCHANGED <<cocoVars, joinVars, indexVars, ingestVars, repairVars,
                   loadVars, polyVars>>

\* line 91: the loop takes the next name; zp, ok and msg of the finished
\* iteration are dead
ZipAdvance ==
    /\ zpc = "checked"
    /\ zi' = zi + 1
    /\ zpc' = IF zi = Len(AllZips) THEN "ret" ELSE "loop"
    /\ zarchive' = NoArchive
    /\ zres' = NoResult
    /\ UNCHANGED <<src_is_dir, password, failed, report, exit_code>>
    /\ UNCHANGED <<cocoVars, joinVars, indexVars, ingestVars, repairVars,
                   loadVars, polyVars>>

\* return 3 if failed else 0
ZipReturn ==
    /\ zpc = "ret"
    /\ exit_code' = IF failed THEN 3 ELSE 0
    /\ zpc' = "done"
    /\ UNCHANGED <<src_is_dir, password, zi, failed, report, zarchive, zres>>
    /\ UNCHANGED <<cocoVars, joinVars, indexVars, ingestVars, repairVars,
                   loadVars, polyVars>>

ZipNext == ZipStart \/ ZipCheck \/ ZipAdvance \/ ZipReturn

\* ========================================================================
\* convert_deepfashion2_to_coco.py

\* ---- JSON values, tagged with their Python type after json.load
JInt(n) == [t |-> "int", n |-> n, s |-> ""]
JFloat(n) == [t |-> "float", n |-> n, s |-> ""]
JStr(str) == [t |-> "str", n |-> 0, s |-> str]
JNull == [t |-> "null", n |-> 0, s |-> ""]

\* isinstance(x, (int, float))
IsNumber(x) == x.t \in {"int", "float"}

\* ---- file names, as character sequences
DotJpg == <<".", "j", "p", "g">>
DotPng == <<".", "p", "n", "g">>

\* the printable ASCII characters, from code point 32 on; the entry of code
\* point 96 is left empty
Ascii ==
    << " ", "!", "\"", "#", "$", "%", "&", "'", "(", ")", "*", "+",
       ",", "-", ".", "/", "0", "1", "2", "3", "4", "5", "6", "7",
       "8", "9", ":", ";", "<", "=", ">", "?", "@", "A", "B", "C",
       "D", "E", "F", "G", "H", "I", "J", "K", "L", "M", "N", "O",
       "P", "Q", "R", "S", "T", "U", "V", "W", "X", "Y", "Z", "[",
       "\\", "]", "^", "_", "", "a", "b", "c", "d", "e", "f", "g",
       "h", "i", "j", "k", "l", "m", "n", "o", "p", "q", "r", "s",
       "t", "u", "v", "w", "x", "y", "z", "{", "|", "}", "~" >>

\* ord(c) for the characters of a file name
Ord(c) == 31 + (CHOOSE k \in 1..Len(Ascii) : Ascii[k] = c)

\* str < str: lexicographic by code point, a proper prefix first
RECURSIVE StrLess(_, _)
StrLess(a, b) ==
    IF b = <<>> THEN FALSE
    ELSE IF a = <<>> THEN TRUE
    ELSE IF Ord(a[1]) # Ord(b[1]) THEN Ord(a[1]) < Ord(b[1])
    ELSE StrLess(Tail(a), Tail(b))

\* sorted(S) for a set of names
RECURSIVE Sorted(_)
Sorted(S) ==
    IF S = {} THEN <<>>
    ELSE LET m == CHOOSE x \in S : \A y \in S \ {x} : StrLess(x, y)
         IN  <<m>> \o Sorted(S \ {m})

\* the order a directory scan happens to return: here, descending
RECURSIVE Unsorted(_)
Unsorted(S) ==
    IF S = {} THEN <<>>
    ELSE LET m == CHOOSE x \in S : \A y \in S \ {x} : StrLess(y, x)
         IN  <<m>> \o Unsorted(S \ {m})

\* annos_dir.glob("*.json")
Glob(dir) == { f \in dir : EndsWith(f, DotJson) }

\* mutant: the glob without sorted()
_iter_annos_unsorted(dir) == Unsorted(Glob(dir))

_iter_annos(dir) == Sorted(Glob(dir))

\* str.rfind(c): the last position of c, counted from 1, or 0
rfind(name, c) ==
    LET at == { k \in 1..Len(name) : name[k] = c }
    IN  IF at = {} THEN 0 ELSE CHOOSE k \in at : \A j \in at : j <= k

\* PurePath.stem: the name up to its last dot, unless that dot is the first
\* or the last character of the name
PathStem(name) ==
    LET i == rfind(name, ".")
    IN  IF 1 < i /\ i < Len(name) THEN SubSeq(name, 1, i - 1) ELSE name

\* anno_path.stem
Stem(f) == PathStem(f)

\* files the annotation directory may hold; the glob also matches the file
\* whose whole name is ".json"
AnnoDirNames ==
    { <<"a">> \o DotJson, <<"a", "-", "b">> \o DotJson, <<"b">> \o DotJson,
      <<"b", ".", "t", "x", "t">>, DotJson }

\* files the image directory may hold
ImageDirNames ==
    { <<"a">> \o DotJpg, <<"a">> \o DotPng, <<"a", "-", "b">> \o DotPng,
      <<"b">> \o DotJpg, DotJson \o DotJpg }

\* values of --limit explored
Limits == {0, 1, 2}

\* mutant: the .png tried first
ResolveImage_png_first(stem, dir) ==
    IF (stem \o DotPng) \in dir THEN stem \o DotPng
    ELSE IF (stem \o DotJpg) \in dir THEN stem \o DotJpg
    ELSE None

\* lines 87-96: the image file of a document, None when neither exists
ResolveImage(stem, dir) ==
    IF (stem \o DotJpg) \in dir THEN stem \o DotJpg
    ELSE IF (stem \o DotPng) \in dir THEN stem \o DotPng
    ELSE None

\* what json.load gave for a document: a dict, a list, or a decode error
DocShapes == {"object", "array", "invalid"}

\* the declared height/width of a document
DeclaredDims == { [height |-> JInt(300), width |-> JInt(200)],
                  [height |-> JNull, width |-> JInt(200)],
                  [height |-> JFloat(300), width |-> JFloat(200)] }

\* Image.open(img_path).size of a readable image file, (width, height)
PilSize == [width |-> 64, height |-> 48]

\* the import of PIL or Image.open raises: no PIL, or not an image file
Unreadable == [width |-> -1, height |-> -1]

\* what opening the image of a document gives
Opened == {PilSize, Unreadable}

\* lines 102-107: the declared size is not a pair of ints and the fallback
\* raises
SizeFails(anno) ==
    /\ ~(anno.dims.height.t = "int" /\ anno.dims.width.t = "int")
    /\ anno.opened = Unreadable

\* lines 100-107
ImageDims(anno) ==
    IF anno.dims.height.t = "int" /\ anno.dims.width.t = "int"
    THEN [width |-> anno.dims.width.n, height |-> anno.dims.height.n]
    ELSE anno.opened

\* most (key, value) pairs in the documents of one run
MaxItems == 2

JList(xs) == [t |-> "list", v |-> xs]
NoList == [t |-> "null", v |-> <<>>]

\* bounding_box values explored: the spec's example, a width of exactly 1, a
\* 2 x 2 box with a float, an inverted box, three coordinates, a non-number,
\* no box
BoxExample == JList(<<JInt(10), JInt(10), JInt(50), JInt(60)>>)
BoxWidth1 == JList(<<JInt(10), JInt(10), JInt(11), JInt(60)>>)
Boxes ==
    { BoxExample,
      BoxWidth1,
      JList(<<JInt(10), JInt(10), JFloat(12), JInt(12)>>),
      JList(<<JInt(50), JInt(60), JInt(10), JInt(10)>>),
      JList(<<JInt(10), JInt(10), JInt(50)>>),
      JList(<<JInt(10), JInt(10), JStr("50"), JInt(60)>>),
      NoList }

CategoryIds == { JInt(3), JInt(1), JStr("3") }
CategoryNames == { JStr("top"), JStr("tee"), JNull }

\* One (key, value) pair of a document.  `item_key` is whether the key is a
\* string starting with "item", `is_dict` whether the value is a dict.
ItemSlot(k, d, b, c, n) ==
    [item_key |-> k, is_dict |-> d, bounding_box |-> b, category_id |-> c,
     category_name |-> n]
NoSlot == ItemSlot(FALSE, FALSE, NoList, JNull, JNull)
ExampleItem == ItemSlot(TRUE, TRUE, BoxExample, JInt(3), JStr("top"))

\* pairs explored: a non-item key, a non-dict value, every box, every
\* (id, name) on a valid box, (id, name) on a degenerate and on a malformed box
ItemSlots ==
    { NoSlot, ItemSlot(TRUE, FALSE, NoList, JNull, JNull) }
    \cup { ItemSlot(TRUE, TRUE, b, JInt(3), JStr("top")) : b \in Boxes }
    \cup { ItemSlot(TRUE, TRUE, BoxExample, c, n) :
             c \in CategoryIds, n \in CategoryNames }
    \cup { ItemSlot(TRUE, TRUE, BoxWidth1, c, n) :
             c \in {JInt(3), JInt(1)}, n \in {JStr("tee"), JNull} }
    \cup { ItemSlot(TRUE, TRUE, JList(<<JInt(10), JInt(10), JInt(50)>>),
                    JInt(3), JStr("tee")) }

ItemSeqs(n) == UNION { [1..k -> ItemSlots] : k \in 0..n }

\* lines 122-126 negated: a list of exactly four numbers
BoxOk(bbox) ==
    /\ bbox.t = "list"
    /\ Len(bbox.v) = 4
    /\ \A i \in 1..Len(bbox.v) : IsNumber(bbox.v[i])

\* lines 114-129: the slot gets past every `continue` before the box maths
Validated(v) ==
    /\ v.item_key
    /\ v.is_dict
    /\ BoxOk(v.bounding_box)
    /\ v.category_id.t = "int"

Max(a, b) == IF a >= b THEN a ELSE b

\* lines 133-135: w, h = max(0.0, float(x2) - float(x1)), ...
BoxW(bbox) == Max(0, bbox.v[3].n - bbox.v[1].n)
BoxH(bbox) == Max(0, bbox.v[4].n - bbox.v[2].n)

\* mutant: the test `w <= 0.0 or h <= 0.0`
Degenerate_zero(w, h) == w <= 0 \/ h <= 0

\* line 136
Degenerate(w, h) == w <= 1 \/ h <= 1

\* mutant: bbox kept in corner form [x1, y1, x2, y2]
Annotation_corners(aid, iid, v) ==
    [id |-> aid, image_id |-> iid, category_id |-> v.category_id.n,
     bbox |-> <<v.bounding_box.v[1].n, v.bounding_box.v[2].n,
                v.bounding_box.v[3].n, v.bounding_box.v[4].n>>,
     area |-> BoxW(v.bounding_box) * BoxH(v.bounding_box),
     iscrowd |-> 0, segmentation |-> <<>>]

\* lines 139-149: the annotation appended for a validated slot
Annotation(aid, iid, v) ==
    [id |-> aid, image_id |-> iid, category_id |-> v.category_id.n,
     bbox |-> <<v.bounding_box.v[1].n, v.bounding_box.v[2].n,
                BoxW(v.bounding_box), BoxH(v.bounding_box)>>,
     area |-> BoxW(v.bounding_box) * BoxH(v.bounding_box),
     iscrowd |-> 0, segmentation |-> <<>>]

\* line 131: cat_id_to_name.setdefault(cat_id, cat_name)
Register(reg, cid, name) ==
    IF cid \in DOMAIN reg THEN reg
    ELSE [c \in DOMAIN reg \cup {cid} |-> IF c = cid THEN name ELSE reg[c]]

\* sorted(keys) for a set of integers
RECURSIVE SortedInts(_)
SortedInts(S) ==
    IF S = {} THEN <<>>
    ELSE LET m == CHOOSE x \in S : \A y \in S : x <= y
         IN  <<m>> \o SortedInts(S \ {m})

\* lines 157-158
Categories(reg) ==
    LET ids == SortedInts(DOMAIN reg)
    IN  [i \in 1..Len(ids) |->
            [id |-> ids[i], name |-> reg[ids[i]], supercategory |-> "clothing"]]

\* ---- the two directories and --limit

\* a document and what opening its image file gives
DocOn(shape, dims, items, opened) ==
    [shape |-> shape, dims |-> dims, items |-> items, opened |-> opened]

Doc(shape, dims, items) == DocOn(shape, dims, items, PilSize)
ExampleDims == [height |-> JInt(300), width |-> JInt(200)]
ExampleDoc == Doc("object", ExampleDims, <<ExampleItem>>)

FileA == <<"a">> \o DotJson
FileB == <<"b">> \o DotJson

Input(d, i, l) == [docs |-> d, images_dir |-> i, limit |-> l]

\* any directory listing, any image directory, any limit; every document is
\* the spec's example document
DirInputs ==
    { Input([f \in Glob(dir) |-> ExampleDoc], imgs, l) :
        dir \in SUBSET AnnoDirNames, imgs \in SUBSET ImageDirNames, l \in Limits }

\* two documents with their images, the (key, value) pairs la and lb in them
ItemInput(la, lb, l) ==
    Input([f \in {FileA, FileB} |->
              IF f = FileA THEN Doc("object", ExampleDims, la)
              ELSE Doc("object", ExampleDims, lb)],
          {<<"a">> \o DotJpg, <<"b">> \o DotJpg}, l)

\* one document of any shape and declared size, with or without its images,
\* readable or not
DocInputs ==
    { Input([f \in {FileA} |-> DocOn(sh, dm[1], <<ExampleItem>>, dm[2])], imgs, l) :
        sh \in DocShapes, dm \in DeclaredDims \X Opened,
        imgs \in SUBSET {<<"a">> \o DotJpg, <<"a">> \o DotPng}, l \in Limits }

NoCur == [file |-> None, img |-> None, k |-> 0]
EmptyMap == [c \in {} |-> ""]
NoDocs == [f \in {} |-> ExampleDoc]

CocoIdle ==
    /\ cpc = "off" /\ docs = NoDocs /\ images_dir = {} /\ limit = 0
    /\ annos = <<>> /\ image_id = 0 /\ ann_id = 0
    /\ coco_images = <<>> /\ coco_annotations = <<>> /\ coco_categories = <<>>
    /\ cat_id_to_name = EmptyMap /\ cur = NoCur /\ visited = <<>>

\* main up to the loop, on the input `in`
CocoStart(in) ==
    /\ docs = in.docs
    /\ images_dir = in.images_dir
    /\ limit = in.limit
    /\ annos = _iter_annos(DOMAIN in.docs)

\* the runs explored: the directory and document families, and two documents
\* sharing at most MaxItems pairs, with and without a cap
CocoInit ==
    /\ cpc = "doc"
    /\ \/ \E in \in DirInputs \cup DocInputs : CocoStart(in)
       \/ \E la \in ItemSeqs(MaxItems) :
            \E lb \in ItemSeqs(MaxItems - Len(la)) :
                \E l \in {0, 1} : CocoStart(ItemInput(la, lb, l))
    /\ image_id = 0 /\ ann_id = 0
    /\ coco_images = <<>> /\ coco_annotations = <<>> /\ coco_categories = <<>>
    /\ cat_id_to_name = EmptyMap /\ cur = NoCur /\ visited = <<>>

\* lines 84-111: the head of one loop iteration, up to the image entry
CocoDoc ==
    /\ cpc = "doc"
    /\ annos # <<>>
    /\ LET anno_path == Head(annos)
           anno == docs[anno_path]
           img_name == ResolveImage(Stem(anno_path), images_dir)
       IN  IF anno.shape = "invalid"
           THEN \* _load_json raises
                /\ cpc' = "crashed"
                /\ UNCHANGED <<annos, coco_images, cur, visited>>
           ELSE IF img_name = None
           THEN \* continue
                /\ cpc' = "doc"
                /\ annos' = Tail(annos)
                /\ visited' = Append(visited, [file |-> anno_path, img |-> None])
                /\ UNCHANGED <<coco_images, cur>>
           ELSE IF anno.shape = "array"
           THEN \* anno.get raises
                /\ cpc' = "crashed"
                /\ UNCHANGED <<annos, coco_images, cur, visited>>
           ELSE IF SizeFails(anno)
           THEN \* the PIL fallback raises
                /\ cpc' = "crashed"
                /\ UNCHANGED <<annos, coco_images, cur, visited>>
           ELSE /\ cpc' = "items"
                /\ coco_images' = Append(coco_images,
                       [id |-> image_id, file_name |-> img_name,
                        width |-> ImageDims(anno).width,
                        height |-> ImageDims(anno).height])
                /\ cur' = [file |-> anno_path, img |-> img_name, k |-> 0]
                /\ annos' = Tail(annos)
                /\ visited' = Append(visited, [file |-> anno_path, img |-> img_name])
    /\ UNCHANGED <<docs, images_dir, limit, image_id, ann_id, coco_annotations,
                   coco_categories, cat_id_to_name>>
    /\ UNCHANGED <<zipVars, joinVars, indexVars, ingestVars, repairVars,
                   loadVars, polyVars>>

\* lines 113-150: one iteration of `for k, v in anno.items()`
CocoItem ==
    /\ cpc = "items"
    /\ cur.k < Len(docs[cur.file].items)
    /\ LET v == docs[cur.file].items[cur.k + 1]
           w == BoxW(v.bounding_box)
           h == BoxH(v.bounding_box)
           emit == Validated(v) /\ ~Degenerate(w, h)
       IN  /\ cat_id_to_name' =
                IF Validated(v) /\ v.category_name.t = "str"
                THEN Register(cat_id_to_name, v.category_id.n, v.category_name.s)
                ELSE cat_id_to_name
           /\ coco_annotations' =
                IF emit
                THEN Append(coco_annotations, Annotation(ann_id, image_id, v))
                ELSE coco_annotations
           /\ ann_id' = IF emit THEN ann_id + 1 ELSE ann_id
    /\ cur' = [cur EXCEPT !.k = cur.k + 1]
    /\ UNCHANGED <<cpc, docs, images_dir, limit, annos, image_id, coco_images,
                   coco_categories, visited>>
    /\ UNCHANGED <<zipVars, joinVars, indexVars, ingestVars, repairVars,
                   loadVars, polyVars>>

\* mutant: the cap compared with `>`
LimitReached_off_by_one(l, id) == l # 0 /\ id > l

\* line 153: args.limit and image_id >= args.limit
LimitReached(l, id) == l # 0 /\ id >= l

\* lines 152-154: the end of one loop iteration
CocoEndDoc ==
    /\ cpc = "items"
    /\ cur.k = Len(docs[cur.file].items)
    /\ image_id' = image_id + 1
    /\ cpc' = IF LimitReached(limit, image_id + 1) THEN "write" ELSE "doc"
    /\ cur' = NoCur
    /\ UNCHANGED <<docs, images_dir, limit, annos, ann_id, coco_images,
                   coco_annotations, coco_categories, cat_id_to_name, visited>>
    /\ UNCHANGED <<zipVars, joinVars, indexVars, ingestVars, repairVars,
                   loadVars, polyVars>>

\* lines 156-173: after the loop
CocoWrite ==
    /\ cpc = "write" \/ (cpc = "doc" /\ annos = <<>>)
    /\ coco_categories' = Categories(cat_id_to_name)
    /\ cpc' = "done"
    /\ UNCHANGED <<docs, images_dir, limit, annos, image_id, ann_id, coco_images,
                   coco_annotations, cat_id_to_name, cur, visited>>
    /\ UNCHANGED <<zipVars, joinVars, indexVars, ingestVars, repairVars,
                   loadVars, polyVars>>

CocoNext == CocoDoc \/ CocoItem \/ CocoEndDoc \/ CocoWrite

\* ========================================================================
\* augment_polyvore_outfits_with_images.py
\* Strings are sequences of path components or words; "" is <<>>.

\* most lines read from outfits_in
MaxLines == 2
\* most item references read in one run
MaxRefs == 2

\* ---- JSON values that are not objects, tagged with what they are
PStr(cs) == [t |-> "str", n |-> 0, s |-> cs]
PInt(n) == [t |-> "int", n |-> n, s |-> <<>>]
PNone == [t |-> "null", n |-> 0, s |-> <<>>]
\* a line that is not JSON: json.loads raises JSONDecodeError on it
InvalidJson == [t |-> "invalid", n |-> 0, s |-> <<>>]

\* the value is a JSON object (a dict): the ones here are records without
\* the tag of a string, a number or null
IsDict(v) == "t" \notin DOMAIN v

UID1 == <<"polyvore:123_0">>
UID2 == <<"polyvore:123_1">>
REL1 == <<"images", "123", "0.jpg">>
REL2 == <<"..", "123", "1.jpg">>
REL3 == <<"/", "mnt", "1.jpg">>
REL4 == <<"images", "..", "1.jpg">>

\* images_root after expanduser().resolve()
ImagesRoot == <<"/", "data", "polyvore_images">>

\* ---- the file system: the symbolic links (path -> target), the
\* directories and the other files; a path is its components after "/"
Disk(links, dirs, files) == [links |-> links, dirs |-> dirs, files |-> files]

NoLinks == [p \in {} |-> <<>>]
ImagesDir == ImagesRoot \o <<"images">>
ShotsDir == ImagesRoot \o <<"shots">>
RootDirs == {<<"/">>, <<"/", "data">>, ImagesRoot}

\* no images root
NoRootDisk == Disk(NoLinks, {<<"/">>, <<"/", "data">>}, {})
\* no link
PlainDisk ==
    Disk(NoLinks,
         RootDirs \cup {<<"/", "mnt">>, ImagesDir, ImagesDir \o <<"123">>},
         {ImagesDir \o <<"123", "0.jpg">>})
\* images -> ../store
RelLinkDisk ==
    Disk(ImagesDir :> <<"..", "store">>,
         RootDirs \cup {<<"/", "data", "store">>, <<"/", "data", "store", "123">>},
         {<<"/", "data", "store", "123", "0.jpg">>})
\* images -> /mnt/img, and /mnt/img/123/0.jpg -> /data/0.jpg
AbsLinkDisk ==
    Disk((ImagesDir :> <<"/", "mnt", "img">>)
            @@ (<<"/", "mnt", "img", "123", "0.jpg">> :> <<"/", "data", "0.jpg">>),
         RootDirs \cup {<<"/", "mnt">>, <<"/", "mnt", "img">>,
                        <<"/", "mnt", "img", "123">>},
         {<<"/", "data", "0.jpg">>})
\* images -> shots -> /mnt, and /mnt -> /data
ChainDisk ==
    Disk((ImagesDir :> <<"shots">>) @@ (ShotsDir :> <<"/", "mnt">>)
            @@ (<<"/", "mnt">> :> <<"/", "data">>),
         RootDirs, {})
\* images -> shots -> images
LoopDisk ==
    Disk((ImagesDir :> <<"shots">>) @@ (ShotsDir :> <<"images">>), RootDirs, {})
\* images -> images, and 1.jpg -> 1.jpg beside it
SelfLinkDisk ==
    Disk((ImagesDir :> <<"images">>)
            @@ (ImagesRoot \o <<"1.jpg">> :> <<"1.jpg">>),
         RootDirs, {})

Disks ==
    { NoRootDisk, PlainDisk, RelLinkDisk, AbsLinkDisk, ChainDisk, LoopDisk,
      SelfLinkDisk }

IndexLine(uid, rel) == [item_uid |-> uid, image_relpath |-> rel]

\* index files explored: empty, one entry, two entries, a repeated uid, an
\* absolute path, an entry without a path, an entry without a uid, a path
\* with ".." after a directory, a line that is not JSON, a line that is null
IndexFiles ==
    { <<>>,
      <<IndexLine(UID1, REL1)>>,
      <<IndexLine(UID1, REL1), IndexLine(UID2, REL2)>>,
      <<IndexLine(UID1, REL1), IndexLine(UID1, REL3)>>,
      <<IndexLine(UID1, <<>>)>>,
      <<IndexLine(<<>>, REL1), IndexLine(UID2, REL2)>>,
      <<IndexLine(UID1, REL1), IndexLine(UID2, REL4)>>,
      <<IndexLine(UID1, REL1), InvalidJson>>,
      <<PNone, IndexLine(UID1, REL1)>> }

\* lines 35-36: what _load_item_map raises, at its first line that is not
\* JSON (json.loads) or not an object (obj.get), "none" when it returns
LoadError(lines) ==
    IF \A i \in 1..Len(lines) : IsDict(lines[i]) THEN "none"
    ELSE LET k == CHOOSE i \in 1..Len(lines) :
                     ~IsDict(lines[i]) /\ \A j \in 1..(i - 1) : IsDict(lines[j])
         IN  IF lines[k] = InvalidJson THEN "JSONDecodeError"
             ELSE "AttributeError"

\* the loop of _load_item_map, up to the line it raises at
RECURSIVE load_from(_, _)
load_from(lines, out) ==
    IF lines = <<>> THEN out
    ELSE IF ~IsDict(Head(lines)) THEN out
    ELSE LET uid == Head(lines).item_uid
             rel == Head(lines).image_relpath
         IN  IF uid # <<>> /\ rel # <<>>
             THEN load_from(Tail(lines),
                     [u \in DOMAIN out \cup {uid} |-> IF u = uid THEN rel ELSE out[u]])
             ELSE load_from(Tail(lines), out)

NoMapping == [u \in {} |-> <<>>]

_load_item_map(lines) == load_from(lines, NoMapping)

\* ---- Path.resolve() of line 79, on the components of an absolute path

\* the directory of a path; "/" is its own
Parent(p) == IF Len(p) > 1 THEN SubSeq(p, 1, Len(p) - 1) ELSE p

\* os.path.normpath on an absolute path: "." and ".." folded as text
RECURSIVE normpath_from(_, _)
normpath_from(parts, acc) ==
    IF parts = <<>> THEN acc
    ELSE IF Head(parts) = "/" THEN normpath_from(Tail(parts), <<"/">>)
    ELSE IF Head(parts) = "." THEN normpath_from(Tail(parts), acc)
    ELSE IF Head(parts) = ".." THEN normpath_from(Tail(parts), Parent(acc))
    ELSE normpath_from(Tail(parts), Append(acc, Head(parts)))

normpath(p) == normpath_from(p, <<>>)

\* posixpath._joinrealpath, not strict: `rest` is walked from the real
\* directory `path`; "." is skipped, ".." is the directory of the real path,
\* a symbolic link is replaced by what its target resolves to.  `pending`
\* are the links being resolved; meeting one of them again is a loop, and
\* the walk ends with ok = FALSE and the path as far as it got.
RECURSIVE _joinrealpath(_, _, _, _)
_joinrealpath(d, path, rest, pending) ==
    IF rest = <<>> THEN [path |-> path, ok |-> TRUE]
    ELSE LET name == Head(rest)
             newpath == Append(path, name)
         IN  IF name = "/" THEN _joinrealpath(d, <<"/">>, Tail(rest), pending)
             ELSE IF name = "." THEN _joinrealpath(d, path, Tail(rest), pending)
             ELSE IF name = ".."
             THEN _joinrealpath(d, Parent(path), Tail(rest), pending)
             ELSE IF newpath \notin DOMAIN d.links
             THEN _joinrealpath(d, newpath, Tail(rest), pending)
             ELSE IF newpath \in pending
             THEN [path |-> newpath \o Tail(rest), ok |-> FALSE]
             ELSE LET t == _joinrealpath(d, path, d.links[newpath],
                                         pending \cup {newpath})
                  IN  IF t.ok THEN _joinrealpath(d, t.path, Tail(rest), pending)
                      ELSE [path |-> t.path \o Tail(rest), ok |-> FALSE]

\* links the system follows in one lookup before it gives up with ELOOP
MaxSymlinks == 40

\* the system's lookup of a path (stat), from the directory `at` with the
\* components `rest` to go: "." stays, ".." is the directory above, a
\* directory is entered, a link is replaced by what its target leads to.
\* The lookup ends with ENOENT at a name that is not there, with ENOTDIR at a
\* file with components to go, and with ELOOP at the link after MaxSymlinks
\* links; a link met again while its own target is looked up (`pending`) is
\* followed for ever, which ends with ELOOP too.
RECURSIVE path_lookup(_, _, _, _, _)
path_lookup(d, at, rest, pending, follows) ==
    IF rest = <<>> THEN [at |-> at, follows |-> follows, end |-> "ok"]
    ELSE IF at \in d.files
    THEN [at |-> at, follows |-> follows, end |-> "ENOTDIR"]
    ELSE LET name == Head(rest)
             newpath == Append(at, name)
         IN  IF name = "/"
             THEN path_lookup(d, <<"/">>, Tail(rest), pending, follows)
             ELSE IF name = "."
             THEN path_lookup(d, at, Tail(rest), pending, follows)
             ELSE IF name = ".."
             THEN path_lookup(d, Parent(at), Tail(rest), pending, follows)
             ELSE IF newpath \in DOMAIN d.links
             THEN IF newpath \in pending \/ follows >= MaxSymlinks
                  THEN [at |-> at, follows |-> follows, end |-> "ELOOP"]
                  ELSE LET t == path_lookup(d, at, d.links[newpath],
                                            pending \cup {newpath}, follows + 1)
                       IN  IF t.end # "ok" THEN t
                           ELSE path_lookup(d, t.at, Tail(rest), pending,
                                            t.follows)
             ELSE IF newpath \in d.dirs \cup d.files
             THEN path_lookup(d, newpath, Tail(rest), pending, follows)
             ELSE [at |-> at, follows |-> follows, end |-> "ENOENT"]

StatResult(d, p) == path_lookup(d, <<"/">>, p, {}, 0).end

\* Path.exists()
Exists(d, p) == StatResult(d, p) = "ok"

\* what resolve() stands for when it raises RuntimeError("Symlink loop ...")
SymlinkLoop == <<>>

\* Path.resolve() of an absolute path: the real path; after a loop, the path
\* as far as it got with "." and ".." folded, and RuntimeError when the
\* system's lookup of that path ends with ELOOP
resolve(d, p) ==
    LET r == _joinrealpath(d, <<>>, p, {})
    IN  IF r.ok THEN r.path
        ELSE IF StatResult(d, normpath(r.path)) = "ELOOP" THEN SymlinkLoop
        ELSE normpath(r.path)

\* str((images_root / rel).resolve()): an absolute rel replaces the root
AbsPath(d, root, rel) ==
    IF rel # <<>> /\ rel[1] = "/" THEN resolve(d, rel)
    ELSE resolve(d, root \o rel)

\* it.get("item_uid"); None is <<>>
ItemUid(it) == IF "item_uid" \in DOMAIN it THEN it["item_uid"] ELSE <<>>

\* mapping.get(uid); None is <<>>
MapGet(map, uid) == IF uid \in DOMAIN map THEN map[uid] ELSE <<>>

\* lines 73-80: what the loop body raises at one item: AttributeError at
\* it.get for an item that is not an object, RuntimeError at resolve() for a
\* path through a loop of links; "none" when it completes
ItemError(it, map, d, root) ==
    IF ~IsDict(it) THEN "AttributeError"
    ELSE IF MapGet(map, ItemUid(it)) = <<>> THEN "none"
    ELSE IF AbsPath(d, root, MapGet(map, ItemUid(it))) = SymlinkLoop
    THEN "RuntimeError"
    ELSE "none"

\* the index of the first item the loop raises at, 0 when there is none
FirstRaising(items, map, d, root) ==
    IF \A i \in 1..Len(items) : ItemError(items[i], map, d, root) = "none"
    THEN 0
    ELSE CHOOSE i \in 1..Len(items) :
            /\ ItemError(items[i], map, d, root) # "none"
            /\ \A j \in 1..(i - 1) : ItemError(items[j], map, d, root) = "none"

\* mutant: the item is rebuilt from its uid and the two path fields
AugmentItem_rebuild(it, map, d, root) ==
    LET rel == MapGet(map, ItemUid(it))
    IN  IF rel # <<>>
        THEN [item_uid |-> ItemUid(it), local_image_relpath |-> rel,
              local_image_abspath |-> AbsPath(d, root, rel)]
        ELSE it

\* lines 75-79: what the loop body does to one item
AugmentItem(it, map, d, root) ==
    LET rel == MapGet(map, ItemUid(it))
    IN  IF rel # <<>>
        THEN [f \in DOMAIN it \cup {"local_image_relpath", "local_image_abspath"} |->
                IF f = "local_image_relpath" THEN rel
                ELSE IF f = "local_image_abspath" THEN AbsPath(d, root, rel)
                ELSE it[f]]
        ELSE it

\* o.get("items") or []
ItemsOf(o) == IF "items" \in DOMAIN o THEN o["items"] ELSE <<>>

\* lines 71-80: what one line raises: JSONDecodeError at json.loads,
\* AttributeError at o.get for a value that is not an object, or what the
\* loop raises at an item; "none" when the record is written
LineError(o, map, d, root) ==
    IF o = InvalidJson THEN "JSONDecodeError"
    ELSE IF ~IsDict(o) THEN "AttributeError"
    ELSE IF FirstRaising(ItemsOf(o), map, d, root) = 0 THEN "none"
    ELSE ItemError(ItemsOf(o)[FirstRaising(ItemsOf(o), map, d, root)],
                   map, d, root)

\* line 74: the items counted when the line raises, the one it raises at
\* included
CountedAtError(o, map, d, root) ==
    IF ~IsDict(o) THEN 0 ELSE FirstRaising(ItemsOf(o), map, d, root)

\* the items the loop went through before the one it raises at
ItemsBeforeError(o, map, d, root) ==
    IF ~IsDict(o) THEN <<>>
    ELSE SubSeq(ItemsOf(o), 1, FirstRaising(ItemsOf(o), map, d, root) - 1)

\* lines 72-82: the record as written, items augmented in place
AugmentRecord(o, map, d, root) ==
    IF "items" \in DOMAIN o
    THEN [f \in DOMAIN o |->
            IF f = "items"
            THEN [i \in 1..Len(o["items"]) |->
                    AugmentItem(o["items"][i], map, d, root)]
            ELSE o[f]]
    ELSE o

\* line 80: number of items of a list that resolve
RECURSIVE CountResolved(_, _)
CountResolved(items, map) ==
    IF items = <<>> THEN 0
    ELSE (IF MapGet(map, ItemUid(Head(items))) # <<>> THEN 1 ELSE 0)
         + CountResolved(Tail(items), map)

\* item references explored: with a uid or without, with an unknown extra
\* field, with local path fields already present (a re-run on augmented
\* data), and an item that is the uid as a string instead of an object
ItemRefs ==
    { [item_uid |-> UID1, name |-> <<"shirt">>],
      [item_uid |-> UID2, name |-> <<"skirt">>, price |-> <<"9">>],
      [name |-> <<"scarf">>],
      [item_uid |-> UID1, name |-> <<"shirt">>,
       local_image_relpath |-> <<"old", "0.jpg">>,
       local_image_abspath |-> <<"/", "old", "0.jpg">>],
      [item_uid |-> UID2, local_image_relpath |-> <<"old", "1.jpg">>],
      PStr(UID1) }

ItemLists(n) == UNION { [1..k -> ItemRefs] : k \in 0..n }

\* outfit records explored with at most n item references
OutfitRecords(n) ==
    { [split |-> <<"train">>, outfit_uid |-> <<"polyvore:123">>] } \cup
    { [split |-> <<"train">>, outfit_uid |-> <<"polyvore:123">>,
       items |-> l, likes |-> <<"7">>] : l \in ItemLists(n) }

\* non-blank lines explored: a record, text that is not JSON, null
OutfitLines(n) == OutfitRecords(n) \cup {InvalidJson, PNone}

NoPct == -1
ZeroDivisionError == -2

\* ---- binary floating point.  A float is [m |-> bits, e |-> exponent]: the
\* significand as a sequence of 53 bits, the highest first and set, and the
\* power of two it is scaled by; FloatZero is 0.0.

\* bits of the significand of a float
Precision == 53

FloatZero == [m |-> <<>>, e |-> 0]

\* the integer a short bit sequence spells
RECURSIVE BitsFrom(_, _, _)
BitsFrom(bs, i, acc) ==
    IF i > Len(bs) THEN acc
    ELSE BitsFrom(bs, i + 1, IF bs[i] = 1 THEN 2 * acc + 1 ELSE 2 * acc)
BitsToInt(bs) == BitsFrom(bs, 1, 0)

\* the bits of a non-negative integer, without leading zeros
RECURSIVE IntToBits(_)
IntToBits(n) == IF n = 0 THEN <<>> ELSE Append(IntToBits(n \div 2), n % 2)

Pow2(n) == 2 ^ n

\* the w lowest bits of each number of ds, one number after the other
Spell(ds, w) ==
    [i \in 1..(w * Len(ds)) |->
        (ds[(i - 1) \div w + 1] \div Pow2(w - 1 - ((i - 1) % w))) % 2]

\* a bit sequence without its leading zeros
StripZeros(bs) ==
    IF \A i \in 1..Len(bs) : bs[i] = 0 THEN <<>>
    ELSE SubSeq(bs, CHOOSE i \in 1..Len(bs) :
                        bs[i] = 1 /\ \A j \in 1..(i - 1) : bs[j] = 0,
                Len(bs))

\* long arithmetic works on groups of 16 bits
LimbBits == 16

\* a bit sequence as numbers of 16 bits, the highest first
ToLimbs(bs) ==
    LET count == (Len(bs) + LimbBits - 1) \div LimbBits
        all == [i \in 1..(count * LimbBits - Len(bs)) |-> 0] \o bs
    IN  [j \in 1..count |->
            BitsToInt(SubSeq(all, LimbBits * (j - 1) + 1, LimbBits * j))]

\* ls * c + carry on numbers of 16 bits
RECURSIVE MulLimbs(_, _, _)
MulLimbs(ls, c, carry) ==
    IF ls = <<>> THEN <<carry>>
    ELSE LET d == Last(ls) * c + carry
         IN  Append(MulLimbs(SubSeq(ls, 1, Len(ls) - 1), c, d \div Pow2(LimbBits)),
                    d % Pow2(LimbBits))

\* bs * c + carry for a small c, as bits
MulSmall(bs, c, carry) ==
    StripZeros(Spell(MulLimbs(ToLimbs(bs), c, carry), LimbBits))

\* round-half-to-even of the bit sequence bs, followed by a non-zero tail
\* when `sticky`, to its first n bits; the result is one bit longer when the
\* rounding carries out of the highest bit
RoundBits(bs, sticky, n) ==
    LET keep == SubSeq(bs, 1, n)
        drop == SubSeq(bs, n + 1, Len(bs))
        half == drop # <<>> /\ drop[1] = 1
        more == sticky \/ \E i \in 2..Len(drop) : drop[i] = 1
        odd == keep # <<>> /\ Last(keep) = 1
    IN  IF half /\ (more \/ odd) THEN MulSmall(keep, 1, 1) ELSE keep

\* the float r * 2^e for r of 53 bits, or of 54 bits after a carry
Renormalized(r, e) ==
    IF Len(r) > Precision THEN [m |-> SubSeq(r, 1, Precision), e |-> e + 1]
    ELSE [m |-> r, e |-> e]

\* the float nearest to bits * 2^e (bits with the highest bit set), where
\* `sticky` says that the exact value has further non-zero bits
RoundFloat(bits, sticky, e) ==
    IF Len(bits) <= Precision
    THEN [m |-> bits \o [i \in 1..(Precision - Len(bits)) |-> 0],
          e |-> e - (Precision - Len(bits))]
    ELSE Renormalized(RoundBits(bits, sticky, Precision),
                      e + Len(bits) - Precision)

\* the quotient rem / d < 1 to count * 8 binary digits after the point, eight
\* digits to a step, and what is left of the dividend
RECURSIVE DivBytes(_, _, _)
DivBytes(rem, d, count) ==
    IF count = 0 THEN [bytes |-> <<>>, rem |-> rem]
    ELSE LET rest == DivBytes((rem * 256) % d, d, count - 1)
         IN  [bytes |-> <<(rem * 256) \div d>> \o rest.bytes, rem |-> rest.rem]

\* n / d scaled by a power of two into [1, 2): n * 2^k / d
RECURSIVE Normalize(_, _, _)
Normalize(n, d, k) ==
    IF n < d THEN Normalize(2 * n, d, k - 1)
    ELSE IF n >= 2 * d THEN Normalize(n, 2 * d, k + 1)
    ELSE [n |-> n, d |-> d, k |-> k]

\* int / int for a >= 0 and b > 0: the float nearest to the quotient, from
\* its first 57 binary digits and whether more follow
QuotientFloat(q, k) == RoundFloat(<<1>> \o Spell(q.bytes, 8), q.rem # 0, k - 56)
ScaledDiv(s) == QuotientFloat(DivBytes(s.n - s.d, s.d, 7), s.k)
TrueDiv(a, b) == IF a = 0 THEN FloatZero ELSE ScaledDiv(Normalize(a, b, 0))

\* float * c for a small integer c that is itself a float
FloatMul(x, c) ==
    IF x = FloatZero THEN FloatZero
    ELSE RoundFloat(MulSmall(x.m, c, 0), FALSE, x.e)

\* "{x:.1f}" as a number of tenths: the decimal with one digit after the
\* point that is nearest to the value of the float, ties to the even digit
RoundToInt(bits, e) ==
    IF e >= 0 THEN BitsToInt(bits \o [i \in 1..e |-> 0])
    ELSE IF -e >= Len(bits)
    THEN BitsToInt(RoundBits([i \in 1..(1 - e - Len(bits)) |-> 0] \o bits, FALSE, 1))
    ELSE BitsToInt(RoundBits(bits, FALSE, Len(bits) + e))
FormatTenths(x) ==
    IF x = FloatZero THEN 0 ELSE RoundToInt(MulSmall(x.m, 10, 0), x.e)

\* resolved / total_items * 100.0 as "{pct:.1f}" prints it, in tenths of a
\* percent; a zero divisor raises
TrueDivPct(r, t) ==
    IF t = 0 THEN ZeroDivisionError
    ELSE FormatTenths(FloatMul(TrueDiv(r, t), 100))

\* line 84
Pct(r, t) == IF t # 0 THEN TrueDivPct(r, t) ELSE 0

JoinIdle ==
    /\ jpc = "off" /\ disk = NoRootDisk /\ images_root_exists = FALSE
    /\ item_images = <<>> /\ mapping = NoMapping /\ jn = 0 /\ fin = <<>>
    /\ fout = <<>> /\ total_outfits = 0 /\ total_items = 0 /\ resolved = 0
    /\ pct = NoPct /\ join_error = "none"

\* what the run is given
JoinInit ==
    /\ jpc = "start"
    /\ disk \in Disks
    /\ images_root_exists = Exists(disk, ImagesRoot)
    /\ item_images \in IndexFiles
    /\ mapping = NoMapping
    /\ jn = 0
    /\ fin = <<>>
    /\ fout = <<>>
    /\ total_outfits = 0
    /\ total_items = 0
    /\ resolved = 0
    /\ pct = NoPct
    /\ join_error = "none"

\* lines 57-60: the images root is checked and the index loaded
JoinStart ==
    /\ jpc = "start"
    /\ IF ~images_root_exists
       THEN /\ jpc' = "crashed"
            /\ join_error' = "SystemExit"
            /\ UNCHANGED mapping
       ELSE IF LoadError(item_images) # "none"
       THEN /\ jpc' = "crashed"
            /\ join_error' = LoadError(item_images)
            /\ UNCHANGED mapping
       ELSE /\ jpc' = "lines"
            /\ mapping' = _load_item_map(item_images)
            /\ UNCHANGED join_error
    /\ UNCHANGED <<disk, images_root_exists, item_images, jn, fin, fout,
                   total_outfits, total_items, resolved, pct>>
    /\ UNCHANGED <<zipVars, cocoVars, indexVars, ingestVars, repairVars,
                   loadVars, polyVars>>

\* lines 67-70: a blank line
JoinBlank ==
    /\ jpc = "lines"
    /\ jn < MaxLines
    /\ jn' = jn + 1
    /\ UNCHANGED <<jpc, disk, images_root_exists, item_images, mapping, fin,
                   fout, total_outfits, total_items, resolved, pct, join_error>>
    /\ UNCHANGED <<zipVars, cocoVars, indexVars, ingestVars, repairVars,
                   loadVars, polyVars>>

\* lines 67-82: one non-blank line; when it raises, the run ends there with
\* the records of the lines before it written
JoinLine ==
    /\ jpc = "lines"
    /\ jn < MaxLines
    /\ \E o \in OutfitLines(MaxRefs - total_items) :
        /\ fin' = Append(fin, o)
        /\ IF LineError(o, mapping, disk, ImagesRoot) = "none"
           THEN /\ total_items' = total_items + Len(ItemsOf(o))
                /\ resolved' = resolved + CountResolved(ItemsOf(o), mapping)
                /\ total_outfits' = total_outfits + 1
                /\ fout' = Append(fout, AugmentRecord(o, mapping, disk, ImagesRoot))
                /\ UNCHANGED <<jpc, join_error>>
           ELSE /\ total_items' =
                     total_items + CountedAtError(o, mapping, disk, ImagesRoot)
                /\ resolved' =
                     resolved + CountResolved(
                        ItemsBeforeError(o, mapping, disk, ImagesRoot), mapping)
                /\ jpc' = "crashed"
                /\ join_error' = LineError(o, mapping, disk, ImagesRoot)
                /\ UNCHANGED <<total_outfits, fout>>
    /\ jn' = jn + 1
    /\ UNCHANGED <<disk, images_root_exists, item_images, mapping, pct>>
    /\ UNCHANGED <<zipVars, cocoVars, indexVars, ingestVars, repairVars,
                   loadVars, polyVars>>

\* end of input: lines 84-89
JoinDone ==
    /\ jpc = "lines"
    /\ \E p \in {Pct(resolved, total_items)} :
           IF p = ZeroDivisionError
           THEN /\ jpc' = "crashed"
                /\ join_error' = "ZeroDivisionError"
                /\ UNCHANGED pct
           ELSE /\ jpc' = "done"
                /\ pct' = p
                /\ UNCHANGED join_error
    /\ UNCHANGED <<disk, images_root_exists, item_images, mapping, jn, fin,
                   fout, total_outfits, total_items, resolved>>
    /\ UNCHANGED <<zipVars, cocoVars, indexVars, ingestVars, repairVars,
                   loadVars, polyVars>>

JoinNext == JoinStart \/ JoinBlank \/ JoinLine \/ JoinDone

\* ========================================================================
\* index_polyvore_images.py
\* File names and identifiers are sequences of characters.

\* most runs of the tool over one image tree
MaxRuns == 2

Namespace == <<"p", "o", "l", "y", "v", "o", "r", "e", ":">>
ImagesName == <<"i", "m", "a", "g", "e", "s">>

\* what --images-root points at: nothing, a folder without `images`, a
\* folder holding `images`, the `images` folder itself
Layouts == {"no_root", "no_images", "images_subdir", "root_is_images"}

\* names explored in the base folder: two collection directories and a
\* plain file
CollectionNames == { <<"1">>, <<"1", "_", "2">> }
StrayName == <<"0">> \o DotJpg
\* names explored inside a collection directory
IndexFileNames ==
    { <<"3">> \o DotJpg, <<"2", "_", "3">> \o DotJpg, <<"3">> \o DotPng, DotJpg }

DirEntry(fs) == [is_dir |-> TRUE, files |-> fs]
FileEntry == [is_dir |-> FALSE, files |-> {}]

\* the image trees explored
Trees ==
    { t \in UNION { [N -> { DirEntry(fs) : fs \in SUBSET IndexFileNames }
                           \cup {FileEntry}] :
                      N \in SUBSET (CollectionNames \cup {StrayName}) } :
        \A n \in DOMAIN t : t[n].is_dir = (n # StrayName) }

\* line 51: sorted(p for p in base.iterdir() if p.is_dir())
SetDirs(t) == Sorted({ n \in DOMAIN t : t[n].is_dir })

\* line 53: sorted(set_dir.glob("*.jpg"))
GlobJpg(fs) == Sorted({ f \in fs : EndsWith(f, DotJpg) })

\* jpg.stem
JpgStem(f) == PathStem(f)

\* the <<set_dir, jpg>> pairs in the order the two loops visit them
RECURSIVE WalkFrom(_, _)
WalkFrom(dirs, t) ==
    IF dirs = <<>> THEN <<>>
    ELSE LET jpgs == GlobJpg(t[Head(dirs)].files)
         IN  [i \in 1..Len(jpgs) |-> <<Head(dirs), jpgs[i]>>]
             \o WalkFrom(Tail(dirs), t)

Walk(t) == WalkFrom(SetDirs(t), t)

\* PurePath.as_posix(): the components joined with "/"
RECURSIVE as_posix(_)
as_posix(parts) ==
    IF parts = <<>> THEN <<>>
    ELSE IF Len(parts) = 1 THEN parts[1]
    ELSE parts[1] \o <<"/">> \o as_posix(Tail(parts))

\* line 62: jpg.relative_to(root).as_posix()
ImageRelpath(lay, set_id, jpg) ==
    IF lay = "images_subdir" THEN as_posix(<<ImagesName, set_id, jpg>>)
    ELSE as_posix(<<set_id, jpg>>)

\* line 55: f"polyvore:{set_id}_{idx}"
ComposeItemUid(set_id, idx) == Namespace \o set_id \o <<"_">> \o idx

\* lines 54-64: the entry written for one jpg
IndexEntry(lay, set_id, jpg) ==
    [item_uid |-> ComposeItemUid(set_id, JpgStem(jpg)),
     set_id |-> set_id,
     index |-> JpgStem(jpg),
     image_relpath |-> ImageRelpath(lay, set_id, jpg),
     exists |-> TRUE]

\* mutant: the index file opened for appending
OpenW_append(file) == file

\* line 50: out_path.open("w") truncates the file
OpenW(file) == <<>>

NoTree == [n \in {} |-> FileEntry]

IndexIdle ==
    /\ ipc = "off" /\ layout = "no_root" /\ tree = NoTree /\ out_file = <<>>
    /\ todo = <<>> /\ written = 0 /\ runs = 0 /\ run_tree = NoTree
    /\ prev_tree = NoTree /\ prev_out = <<>>

\* before the first run: some tree, no index file yet
IndexInit ==
    /\ ipc = "start"
    /\ layout \in Layouts
    /\ tree \in Trees
    /\ out_file = <<>> /\ todo = <<>> /\ written = 0 /\ runs = 0
    /\ run_tree = tree /\ prev_tree = tree /\ prev_out = <<>>

\* lines 32-50: a run starts, up to the opening of the index file
IndexOpen ==
    /\ ipc \in {"start", "done"}
    /\ runs < MaxRuns
    /\ runs' = runs + 1
    /\ IF layout \in {"no_root", "no_images"}
       THEN \* SystemExit before the file is opened
            /\ ipc' = "crashed"
            /\ UNCHANGED <<out_file, todo, written, run_tree, prev_tree, prev_out>>
       ELSE /\ ipc' = "walk"
            /\ out_file' = OpenW(out_file)
            /\ todo' = Walk(tree)
            /\ written' = 0
            /\ run_tree' = tree
            /\ prev_tree' = run_tree
            /\ prev_out' = out_file
    /\ UNCHANGED <<layout, tree>>
    /\ UNCHANGED <<zipVars, cocoVars, joinVars, ingestVars, repairVars,
                   loadVars, polyVars>>

\* lines 53-69: one iteration of the inner loop
IndexWrite ==
    /\ ipc = "walk"
    /\ todo # <<>>
    /\ out_file' = Append(out_file, IndexEntry(layout, Head(todo)[1], Head(todo)[2]))
    /\ written' = written + 1
    /\ todo' = Tail(todo)
    /\ UNCHANGED <<ipc, layout, tree, runs, run_tree, prev_tree, prev_out>>
    /\ UNCHANGED <<zipVars, cocoVars, joinVars, ingestVars, repairVars,
                   loadVars, polyVars>>

\* lines 71-72
IndexClose ==
    /\ ipc = "walk"
    /\ todo = <<>>
    /\ ipc' = "done"
    /\ UNCHANGED <<layout, tree, out_file, todo, written, runs, run_tree,
                   prev_tree, prev_out>>
    /\ UNCHANGED <<zipVars, cocoVars, joinVars, ingestVars, repairVars,
                   loadVars, polyVars>>

\* between two runs an image or a whole collection is removed
IndexRemove ==
    /\ ipc = "done"
    /\ runs < MaxRuns
    /\ \E d \in { n \in DOMAIN tree : tree[n].is_dir } :
          \/ tree' = [n \in DOMAIN tree \ {d} |-> tree[n]]
          \/ \E f \in tree[d].files :
                tree' = [tree EXCEPT ![d].files = @ \ {f}]
    /\ UNCHANGED <<ipc, layout, out_file, todo, written, runs, run_tree,
                   prev_tree, prev_out>>
    /\ UNCHANGED <<zipVars, cocoVars, joinVars, ingestVars, repairVars,
                   loadVars, polyVars>>

IndexNext == IndexOpen \/ IndexWrite \/ IndexClose \/ IndexRemove

\* ========================================================================
\* ingest_deep_fashion.py: main and _iter_images
\* Names and identifiers are sequences of characters, the other csv values
\* sequences of words; "" is <<>>.

\* most rows of purchase_history.csv
MaxRows == 2

TrainName == <<"t", "r", "a", "i", "n">>
ValName == <<"v", "a", "l">>
TestName == <<"t", "e", "s", "t">>

\* line 52: the splits in the order _iter_images visits them
SplitNames == <<TrainName, ValName, TestName>>

\* str(dataset_root)
DatasetRoot == <<"/", "d", "a", "t", "a">>

\* names explored in a split directory; ".jpg" and ".jpg.jpg" both match the
\* glob and both have the stem ".jpg"
SplitFileNames ==
    { <<"1">> \o DotJpg, <<"1", "-">> \o DotJpg, <<"1">> \o DotPng, DotJpg,
      DotJpg \o DotJpg }

NoDir == [exists |-> FALSE, files |-> {}]
SplitDir(fs) == [exists |-> TRUE, files |-> fs]

\* the images folders explored
SplitDirChoices ==
    { d \in [ {TrainName, ValName, TestName} ->
                {NoDir} \cup { SplitDir(fs) : fs \in SUBSET SplitFileNames } ] :
        /\ d[ValName].files \cap {DotJpg, DotJpg \o DotJpg} = {}
        /\ d[TestName] \in {NoDir, SplitDir({}), SplitDir({<<"1">> \o DotJpg})} }

\* lines 57-60
ImageRecord(split, name) ==
    [outfit_uid |-> split \o <<":">> \o JpgStem(name),
     image_id |-> JpgStem(name),
     split |-> split,
     image_relpath |-> as_posix(<<ImagesName, split, name>>)]

\* lines 52-60, for the splits from the k-th on
RECURSIVE iter_images_from(_, _)
iter_images_from(k, dirs) ==
    IF k > Len(SplitNames) THEN <<>>
    ELSE LET split == SplitNames[k]
             jpgs == IF dirs[split].exists THEN GlobJpg(dirs[split].files)
                     ELSE <<>>
         IN  [i \in 1..Len(jpgs) |-> ImageRecord(split, jpgs[i])]
             \o iter_images_from(k + 1, dirs)

_iter_images(dirs) == iter_images_from(1, dirs)

\* the sort key (r.split, r.image_id), compared as tuples
KeyLess(a, b) ==
    \/ StrLess(a.split, b.split)
    \/ a.split = b.split /\ StrLess(a.image_id, b.image_id)

\* sorted(images, key=...): stable, the least key first
RECURSIVE SortedByKey(_, _)
SortedByKey(imgs, left) ==
    IF left = {} THEN <<>>
    ELSE LET m == CHOOSE i \in left :
                    \A j \in left \ {i} :
                        \/ KeyLess(imgs[i], imgs[j])
                        \/ ~KeyLess(imgs[j], imgs[i]) /\ i < j
         IN  <<imgs[m]>> \o SortedByKey(imgs, left \ {m})

\* mutant: the images in the order they were enumerated
Ordered_as_enumerated(imgs) == imgs

\* line 150
Ordered(imgs) == SortedByKey(imgs, 1..Len(imgs))

\* m.get(k, ""), r.get(k, "")
RowGet(m, k) == IF k \in DOMAIN m THEN m[k] ELSE <<>>

\* lines 133-138 and 153: by_image.get(image_id, [])
RECURSIVE MetaRows(_, _)
MetaRows(rs, iid) ==
    IF rs = <<>> THEN <<>>
    ELSE (IF RowGet(Head(rs), "image_id") # <<>>
             /\ RowGet(Head(rs), "image_id") = iid
          THEN <<Head(rs)>> ELSE <<>>)
         \o MetaRows(Tail(rs), iid)

\* lines 162-164
RECURSIVE UserIds(_, _)
UserIds(ms, acc) ==
    IF ms = <<>> THEN acc
    ELSE LET uid == RowGet(Head(ms), "user_id")
         IN  UserIds(Tail(ms),
                     IF uid # <<>> /\ ~InList(uid, acc) THEN Append(acc, uid)
                     ELSE acc)

\* lines 166-169
RECURSIVE Items(_)
Items(ms) ==
    IF ms = <<>> THEN <<>>
    ELSE LET cat == RowGet(Head(ms), "category")
             sty == RowGet(Head(ms), "style")
         IN  (IF cat # <<>> \/ sty # <<>>
              THEN <<[category |-> cat, style |-> sty]>> ELSE <<>>)
             \o Items(Tail(ms))

\* lines 175-180: the non-empty values of one column
RECURSIVE Column(_, _)
Column(ms, k) ==
    IF ms = <<>> THEN <<>>
    ELSE (IF RowGet(Head(ms), k) # <<>> THEN <<RowGet(Head(ms), k)>> ELSE <<>>)
         \o Column(Tail(ms), k)

\* counter[key] += 1 for every key of a list
RECURSIVE CountAll(_, _)
CountAll(counter, keys) ==
    IF keys = <<>> THEN counter
    ELSE LET k == Head(keys)
         IN  CountAll([x \in DOMAIN counter \cup {k} |->
                          IF x = k
                          THEN (IF k \in DOMAIN counter THEN counter[k] ELSE 0) + 1
                          ELSE counter[x]],
                      Tail(keys))

\* mutant: a field whose list is empty is left out of the record
Record_omit_empty(img, ms) ==
    LET full == [source |-> <<"deep_fashion">>,
                 outfit_uid |-> img.outfit_uid,
                 image_id |-> img.image_id,
                 split |-> img.split,
                 image_relpath |-> img.image_relpath,
                 dataset_root |-> DatasetRoot,
                 user_ids |-> UserIds(ms, <<>>),
                 items |-> Items(ms),
                 seasons |-> Column(ms, "season"),
                 occasions |-> Column(ms, "occasion"),
                 ratings |-> Column(ms, "rating")]
    IN  [f \in { g \in DOMAIN full : full[g] # <<>> } |-> full[f]]

\* lines 188-200
Record(img, ms) ==
    [source |-> <<"deep_fashion">>,
     outfit_uid |-> img.outfit_uid,
     image_id |-> img.image_id,
     split |-> img.split,
     image_relpath |-> img.image_relpath,
     dataset_root |-> DatasetRoot,
     user_ids |-> UserIds(ms, <<>>),
     items |-> Items(ms),
     seasons |-> Column(ms, "season"),
     occasions |-> Column(ms, "occasion"),
     ratings |-> Column(ms, "rating")]

\* rows explored: a full row, a row of the same user and image with the
\* other columns empty, a row with an empty image_id, a row of an image that
\* is not on disk, a row without an image_id column
RowChoices ==
    { [user_id |-> <<"u1">>, image_id |-> <<"1">>, category |-> <<"top">>,
       style |-> <<"casual">>, season |-> <<"summer">>, occasion |-> <<"gym">>,
       rating |-> <<"5">>],
      [user_id |-> <<"u1">>, image_id |-> <<"1">>, category |-> <<>>,
       style |-> <<>>, season |-> <<>>, occasion |-> <<>>, rating |-> <<>>],
      [user_id |-> <<"u2">>, image_id |-> <<>>, category |-> <<"top">>,
       style |-> <<>>, season |-> <<>>, occasion |-> <<"gym">>, rating |-> <<"4">>],
      [user_id |-> <<"u2">>, image_id |-> <<"9">>, category |-> <<"top">>,
       style |-> <<>>, season |-> <<>>, occasion |-> <<"gym">>, rating |-> <<"4">>],
      [user_id |-> <<"u2">>, category |-> <<"top">>] }

\* the rows of one file have the columns of its header
RowLists(n) ==
    { rs \in UNION { [1..k -> RowChoices] : k \in 0..n } :
        \A i, j \in 1..Len(rs) : DOMAIN rs[i] = DOMAIN rs[j] }

NoCounts == [k \in {} |-> 0]
NoDirs == [d \in {TrainName, ValName, TestName} |-> NoDir]

IngestIdle ==
    /\ dpc = "off" /\ root_exists = FALSE /\ split_dirs = NoDirs
    /\ csv_exists = FALSE /\ rows = <<>> /\ images = <<>> /\ ordered = <<>>
    /\ manifest = <<>> /\ split_counts = NoCounts /\ with_meta = 0
    /\ missing_meta = 0 /\ category_counts = NoCounts /\ style_counts = NoCounts

\* the arguments and the files main is given
IngestInit ==
    /\ dpc = "start"
    /\ \E e \in {<<FALSE, FALSE>>, <<TRUE, FALSE>>, <<TRUE, TRUE>>} :
          /\ root_exists = e[1]
          /\ csv_exists = e[2]
          /\ rows \in IF e[2] THEN RowLists(MaxRows) ELSE {<<>>}
    /\ split_dirs \in SplitDirChoices
    /\ images = <<>> /\ ordered = <<>> /\ manifest = <<>>
    /\ split_counts = NoCounts /\ with_meta = 0 /\ missing_meta = 0
    /\ category_counts = NoCounts /\ style_counts = NoCounts

\* lines 122-151: up to the loop
IngestStart ==
    /\ dpc = "start"
    /\ IF ~root_exists
       THEN \* SystemExit: dataset root not found
            dpc' = "crashed" /\ UNCHANGED <<images, ordered>>
       ELSE IF _iter_images(split_dirs) = <<>>
       THEN \* SystemExit: no images found
            dpc' = "crashed" /\ UNCHANGED <<images, ordered>>
       ELSE IF ~csv_exists
       THEN \* read_bytes raises FileNotFoundError
            /\ dpc' = "crashed"
            /\ images' = _iter_images(split_dirs)
            /\ UNCHANGED ordered
       ELSE /\ dpc' = "emit"
            /\ images' = _iter_images(split_dirs)
            /\ ordered' = Ordered(_iter_images(split_dirs))
    /\ UNCHANGED <<root_exists, split_dirs, csv_exists, rows, manifest,
                   split_counts, with_meta, missing_meta, category_counts,
                   style_counts>>
    /\ UNCHANGED <<zipVars, cocoVars, joinVars, indexVars, repairVars,
                   loadVars, polyVars>>

\* lines 152-201: one iteration of `for img in ordered`
IngestEmit ==
    /\ dpc = "emit"
    /\ ordered # <<>>
    /\ LET img == Head(ordered)
           meta_rows == MetaRows(rows, img.image_id)
       IN  /\ manifest' = Append(manifest, Record(img, meta_rows))
           /\ split_counts' = CountAll(split_counts, <<img.split>>)
           /\ with_meta' = IF meta_rows # <<>> THEN with_meta + 1 ELSE with_meta
           /\ missing_meta' =
                IF meta_rows # <<>> THEN missing_meta ELSE missing_meta + 1
           /\ category_counts' =
                CountAll(category_counts, Column(meta_rows, "category"))
           /\ style_counts' = CountAll(style_counts, Column(meta_rows, "style"))
    /\ ordered' = Tail(ordered)
    /\ UNCHANGED <<dpc, root_exists, split_dirs, csv_exists, rows, images>>
    /\ UNCHANGED <<zipVars, cocoVars, joinVars, indexVars, repairVars,
                   loadVars, polyVars>>

\* lines 203-220
IngestFinish ==
    /\ dpc = "emit"
    /\ ordered = <<>>
    /\ dpc' = "done"
    /\ UNCHANGED <<root_exists, split_dirs, csv_exists, rows, images, ordered,
                   manifest, split_counts, with_meta, missing_meta,
                   category_counts, style_counts>>
    /\ UNCHANGED <<zipVars, cocoVars, joinVars, indexVars, repairVars,
                   loadVars, polyVars>>

IngestNext == IngestStart \/ IngestEmit \/ IngestFinish

\* ========================================================================
\* ingest_deep_fashion.py: _repair_purchase_history_csv
\* Text is a sequence of characters, raw input a sequence of bytes; a byte
\* of an ASCII character is written as the character.

\* most pieces a generated input is made of
MaxPieces == 4

LF == "\n"
CR == "\r"
\* the separator characters 0x1C to 0x1F
FS == ""
GS == ""
RS == ""
US == ""
\* A byte of 0x80 or more is written "0x" and its two hexadecimal digits.
HexDigits ==
    <<"0", "1", "2", "3", "4", "5", "6", "7", "8", "9", "A", "B", "C", "D", "E", "F">>
HighByte(n) == "0x" \o HexDigits[(n \div 16) + 1] \o HexDigits[(n % 16) + 1]
\* the value of each of these bytes
ByteValues ==
    [b \in { HighByte(n) : n \in 128..255 } |->
        CHOOSE n \in 128..255 : HighByte(n) = b]
IsHigh(b) == b \in DOMAIN ByteValues
\* a byte that starts no UTF-8 sequence
InvalidByte == "0xFF"

\* The characters U+0080 to U+00FF and U+1680 are written as themselves,
\* every other character beyond U+00FF as "U+" and its code point in
\* hexadecimal.
Latin1 ==
    << "", "", "", "", "", "", "", "",
       "", "", "", "", "", "", "", "",
       "", "", "", "", "", "", "", "",
       "", "", "", "", "", "", "", "",
       " ", "¡", "¢", "£", "¤", "¥", "¦", "§",
       "¨", "©", "ª", "«", "¬", "­", "®", "¯",
       "°", "±", "²", "³", "´", "µ", "¶", "·",
       "¸", "¹", "º", "»", "¼", "½", "¾", "¿",
       "À", "Á", "Â", "Ã", "Ä", "Å", "Æ", "Ç",
       "È", "É", "Ê", "Ë", "Ì", "Í", "Î", "Ï",
       "Ð", "Ñ", "Ò", "Ó", "Ô", "Õ", "Ö", "×",
       "Ø", "Ù", "Ú", "Û", "Ü", "Ý", "Þ", "ß",
       "à", "á", "â", "ã", "ä", "å", "æ", "ç",
       "è", "é", "ê", "ë", "ì", "í", "î", "ï",
       "ð", "ñ", "ò", "ó", "ô", "õ", "ö", "÷",
       "ø", "ù", "ú", "û", "ü", "ý", "þ", "ÿ" >>
\* U+0085 NEXT LINE and U+00A0 NO-BREAK SPACE
NEL == Latin1[6]
NBSP == Latin1[33]
\* U+1680 OGHAM SPACE MARK
OghamSpace == " "
RECURSIVE Hex(_)
Hex(n) == IF n < 16 THEN HexDigits[n + 1]
          ELSE Hex(n \div 16) \o HexDigits[(n % 16) + 1]
Char(cp) ==
    IF cp < 256 THEN Latin1[cp - 127]
    ELSE IF cp = 5760 THEN OghamSpace
    ELSE "U+" \o (IF cp < 4096 THEN "0" ELSE "") \o Hex(cp)
\* U+FFFD, which errors="replace" puts for bytes that decode to nothing
ReplacementChar == "U+FFFD"

UserIdMarker == <<"u", "s", "e", "r", "_", "i", "d">>
ImageIdMarker == <<"i", "m", "a", "g", "e", "_", "i", "d">>
RatingMarker == <<"r", "a", "t", "i", "n", "g">>
OccasionMarker == <<"o", "c", "c", "a", "s", "i", "o", "n">>
\* line 76: "rati\nng"
SplitFragment == <<"r", "a", "t", "i", LF, "n", "g">>

\* line 84: len(header_lines) < 5
MaxHeaderLines == 5

\* The UTF-8 decoder.  The bytes that must follow a first byte of value v:
\* 0 for a byte that starts nothing.
Needed(v) ==
    IF v \in 194..223 THEN 1
    ELSE IF v \in 224..239 THEN 2
    ELSE IF v \in 240..244 THEN 3
    ELSE 0

\* the values the k-th byte after a first byte of value v may have: no
\* overlong form, no surrogate, nothing beyond U+10FFFF
Continuation(v, k) ==
    IF k > 1 THEN 128..191
    ELSE IF v = 224 THEN 160..191
    ELSE IF v = 237 THEN 128..159
    ELSE IF v = 240 THEN 144..191
    ELSE IF v = 244 THEN 128..143
    ELSE 128..191

\* how many bytes after the high byte at i continue its sequence, k of
\* them counted so far
RECURSIVE Continued(_, _, _)
Continued(bytes, i, k) ==
    IF /\ k < Needed(ByteValues[bytes[i]])
       /\ i + k + 1 <= Len(bytes)
       /\ IsHigh(bytes[i + k + 1])
       /\ ByteValues[bytes[i + k + 1]] \in Continuation(ByteValues[bytes[i]], k + 1)
    THEN Continued(bytes, i, k + 1)
    ELSE k

\* the code point of the complete sequence at i
CodePoint(bytes, i) ==
    LET v == ByteValues[bytes[i]]
        c(k) == ByteValues[bytes[i + k]] - 128
    IN  IF Needed(v) = 1 THEN (v - 192) * 64 + c(1)
        ELSE IF Needed(v) = 2 THEN (v - 224) * 4096 + c(1) * 64 + c(2)
        ELSE (v - 240) * 262144 + c(1) * 4096 + c(2) * 64 + c(3)

\* the byte at i belongs to the sequence a byte before it starts
Follows(bytes, i) ==
    \E j \in (i - 3)..(i - 1) :
        j >= 1 /\ IsHigh(bytes[j]) /\ Continued(bytes, j, 0) >= i - j

\* What the decoder puts for the byte at i: a complete sequence gives its
\* character; a byte that starts nothing, or a first byte with the part of
\* its sequence that is there, gives one U+FFFD; a byte that belongs to the
\* sequence before it gives nothing, written "".
DecodedAt(bytes, i) ==
    IF ~IsHigh(bytes[i]) THEN bytes[i]
    ELSE IF Follows(bytes, i) THEN ""
    ELSE IF /\ Continued(bytes, i, 0) > 0
            /\ Continued(bytes, i, 0) = Needed(ByteValues[bytes[i]])
    THEN Char(CodePoint(bytes, i))
    ELSE ReplacementChar

\* raw.decode("utf-8", errors="replace")
Decode(bytes) ==
    SelectSeq([i \in 1..Len(bytes) |-> DecodedAt(bytes, i)], LAMBDA c : c # "")

\* sub in t
Contains(sub, t) ==
    \E i \in 1..(Len(t) - Len(sub) + 1) : SubSeq(t, i, i + Len(sub) - 1) = sub

\* t.find(sub): the 0-based index of the first occurrence, or -1
Find(t, sub) ==
    IF Contains(sub, t)
    THEN (CHOOSE i \in 1..(Len(t) - Len(sub) + 1) :
            /\ SubSeq(t, i, i + Len(sub) - 1) = sub
            /\ \A j \in 1..(i - 1) : SubSeq(t, j, j + Len(sub) - 1) # sub) - 1
    ELSE -1

\* t.replace(old, new) for a non-empty old: every occurrence, left to
\* right, the search going on after each one
RECURSIVE Replace(_, _, _)
Replace(t, old, new) ==
    IF Find(t, old) = -1 THEN t
    ELSE SubSeq(t, 1, Find(t, old)) \o new
             \o Replace(SubSeq(t, Find(t, old) + Len(old) + 1, Len(t)), old, new)

\* the characters str.splitlines() breaks a line at: the seven of ASCII,
\* U+0085, U+2028 and U+2029; "\r\n" is one break
LineSeparator == "U+2028"
ParagraphSeparator == "U+2029"
LineBreaks ==
    {LF, CR, VT, FF, FS, GS, RS, NEL, LineSeparator, ParagraphSeparator}

\* t.splitlines(keepends=True)
RECURSIVE splitlines(_)
splitlines(t) ==
    IF t = <<>> THEN <<>>
    ELSE IF \A i \in 1..Len(t) : t[i] \notin LineBreaks THEN <<t>>
    ELSE LET k == CHOOSE i \in 1..Len(t) :
                    /\ t[i] \in LineBreaks
                    /\ \A j \in 1..(i - 1) : t[j] \notin LineBreaks
             e == IF t[k] = CR /\ k < Len(t) /\ t[k + 1] = LF THEN k + 1 ELSE k
         IN  <<SubSeq(t, 1, e)>> \o splitlines(SubSeq(t, e + 1, Len(t)))

\* "".join(parts)
RECURSIVE Join(_)
Join(parts) == IF parts = <<>> THEN <<>> ELSE Head(parts) \o Join(Tail(parts))

\* t.replace(c, "") for one character c
Without(t, c) == SelectSeq(t, LAMBDA x : x # c)

\* lines 69-72: the first line holds "rating" and "occasion"
HeaderFine(t) ==
    LET first_line_end == Find(t, <<LF>>)
    IN  /\ first_line_end # -1
        /\ Contains(RatingMarker, SubSeq(t, 1, first_line_end))
        /\ Contains(OccasionMarker, SubSeq(t, 1, first_line_end))

\* line 76
RejoinSplit(t) == Replace(t, SplitFragment, RatingMarker)

\* line 88
IsHeader(candidate) ==
    /\ Contains(UserIdMarker, candidate)
    /\ Contains(ImageIdMarker, candidate)
    /\ Contains(RatingMarker, candidate)
    /\ Contains(OccasionMarker, candidate)

\* line 90
Collapse(candidate) == Without(Without(candidate, CR), LF)

\* the pieces generated inputs are made of
UserImagePiece == UserIdMarker \o <<",">> \o ImageIdMarker \o <<",">>
RatiPiece == <<"r", "a", "t", "i">>
NgTailPiece == <<"n", "g", ",">> \o OccasionMarker
RowPiece == <<"u", "1", ",", "7", ",", "5", ",", "g", "y", "m">>
\* the bytes of U+0085, U+00A0, U+2028 and U+3000
NelBytes == <<"0xC2", "0x85">>
NbspBytes == <<"0xC2", "0xA0">>
LineSeparatorBytes == <<"0xE2", "0x80", "0xA8">>
IdeographicSpaceBytes == <<"0xE3", "0x80", "0x80">>
Pieces ==
    { UserImagePiece, RatiPiece, NgTailPiece, RowPiece, <<LF>>, <<CR>>, <<FF>>,
      <<InvalidByte>>, NelBytes }

PieceSeqs(n) == UNION { [1..k -> Pieces] : k \in 0..n }

IntactHeader == UserImagePiece \o RatiPiece \o NgTailPiece
SplitHeader == UserImagePiece \o RatiPiece \o <<LF>> \o NgTailPiece
FourJunkLines == <<"x", LF, "x", LF, "x", LF, "x", LF>>

\* longer inputs: the split header with rows, the same with "\r\n" line
\* breaks, an intact header with the split fragment in the body, a header
\* broken after user_id with the split fragment in the body, a header on
\* the fifth and on the sixth line, the split header with the split
\* fragment again in the body, the split header after five bare carriage
\* returns, a header broken after user_id with U+0085 after it, "rating"
\* split across U+0085 and across U+2028, an intact header between two
\* U+00A0, the first byte of a sequence at the end of the input
FiveReturns == <<CR, CR, CR, CR, CR>>
LongInputs ==
    { SplitHeader \o <<LF>> \o RowPiece \o <<LF>> \o RowPiece \o <<LF>>,
      UserImagePiece \o RatiPiece \o <<CR, LF>> \o NgTailPiece \o <<CR, LF>>
          \o RowPiece \o <<CR, LF>>,
      IntactHeader \o <<LF>> \o RowPiece \o <<",">> \o RatiPiece \o <<LF>>
          \o NgTailPiece \o <<LF>>,
      UserIdMarker \o <<",", LF>> \o ImageIdMarker \o <<",">> \o RatingMarker
          \o <<",">> \o OccasionMarker \o <<LF>> \o RowPiece \o <<",">>
          \o RatiPiece \o <<LF>> \o NgTailPiece \o <<LF>>,
      FourJunkLines \o IntactHeader \o <<LF>> \o RowPiece \o <<LF>>,
      FourJunkLines \o RowPiece \o <<LF>> \o IntactHeader \o <<LF>>
          \o RowPiece \o <<LF>>,
      SplitHeader \o <<LF>> \o RowPiece \o <<",">> \o RatiPiece \o <<LF>>
          \o NgTailPiece \o <<LF>>,
      FiveReturns \o SplitHeader \o <<LF>> \o RowPiece \o <<LF>>,
      FiveReturns \o SplitHeader,
      UserIdMarker \o <<",", LF>> \o ImageIdMarker \o <<",">> \o RatingMarker
          \o <<",">> \o OccasionMarker \o NelBytes \o <<"m", "o", "r", "e", LF>>
          \o RowPiece \o <<LF>>,
      UserImagePiece \o RatiPiece \o NelBytes \o NgTailPiece \o <<LF>>
          \o RowPiece \o <<LF>>,
      UserImagePiece \o RatiPiece \o LineSeparatorBytes \o NgTailPiece \o <<LF>>
          \o RowPiece \o <<LF>>,
      NbspBytes \o IntactHeader \o NbspBytes \o <<LF>> \o RowPiece,
      SplitHeader \o <<LF>> \o RowPiece \o <<"0xE2", "0x80">> }

RepairIdle ==
    /\ rpc = "off" /\ raw = <<>> /\ text = <<>> /\ csv_lines = <<>>
    /\ header_lines = <<>> /\ repaired = <<>> /\ via = "none"

\* the call, on any input explored
RepairInit ==
    /\ rpc = "fast"
    /\ raw \in { Join(ps) : ps \in PieceSeqs(MaxPieces) } \cup LongInputs
    /\ text = <<>> /\ csv_lines = <<>> /\ header_lines = <<>>
    /\ repaired = <<>> /\ via = "none"

\* lines 66-81: decode, fast path, replacement, splitlines
RepairFast ==
    /\ rpc = "fast"
    /\ IF HeaderFine(Decode(raw))
       THEN /\ text' = Decode(raw)
            /\ repaired' = Decode(raw)
            /\ via' = "fast"
            /\ rpc' = "done"
            /\ UNCHANGED <<csv_lines, header_lines>>
       ELSE /\ text' = RejoinSplit(Decode(raw))
            /\ header_lines' = <<>>
            /\ IF splitlines(RejoinSplit(Decode(raw))) = <<>>
               THEN /\ repaired' = <<>>
                    /\ via' = "empty"
                    /\ rpc' = "done"
                    /\ UNCHANGED csv_lines
               ELSE /\ csv_lines' = splitlines(RejoinSplit(Decode(raw)))
                    /\ rpc' = "scan"
                    /\ UNCHANGED <<repaired, via>>
    /\ UNCHANGED raw
    /\ UNCHANGED <<zipVars, cocoVars, joinVars, indexVars, ingestVars,
                   loadVars, polyVars>>

\* lines 84-92: one iteration of the while loop
RepairScan ==
    /\ rpc = "scan"
    /\ csv_lines # <<>> /\ Len(header_lines) < MaxHeaderLines
    /\ header_lines' = Append(header_lines, Head(csv_lines))
    /\ csv_lines' = Tail(csv_lines)
    /\ LET candidate == Join(Append(header_lines, Head(csv_lines)))
       IN  IF IsHeader(candidate)
           THEN /\ repaired' = Collapse(candidate) \o <<LF>> \o Join(Tail(csv_lines))
                /\ via' = "scan"
                /\ rpc' = "done"
           ELSE UNCHANGED <<repaired, via, rpc>>
    /\ UNCHANGED <<raw, text>>
    /\ UNCHANGED <<zipVars, cocoVars, joinVars, indexVars, ingestVars,
                   loadVars, polyVars>>

\* lines 94-95: the loop ended without a header
RepairFallback ==
    /\ rpc = "scan"
    /\ ~(csv_lines # <<>> /\ Len(header_lines) < MaxHeaderLines)
    /\ repaired' = text
    /\ via' = "fallback"
    /\ rpc' = "done"
    /\ UNCHANGED <<raw, text, csv_lines, header_lines>>
    /\ UNCHANGED <<zipVars, cocoVars, joinVars, indexVars, ingestVars,
                   loadVars, polyVars>>

RepairNext == RepairFast \/ RepairScan \/ RepairFallback

\* ========================================================================
\* ingest_deep_fashion.py: _load_purchase_history

\* most lines after the header in a generated file
MaxCsvRows == 2

Space == " "
Tab == "\t"
Comma == ","
Quote == "\""
\* the characters str.strip() removes: those str.isspace() holds for, ten of
\* ASCII and U+0085, U+00A0, U+1680, U+2000 to U+200A, U+2028, U+2029,
\* U+202F, U+205F, U+3000
Whitespace ==
    {Space, Tab, LF, CR, VT, FF, FS, GS, RS, US, NEL, NBSP, OghamSpace}
        \cup { Char(cp) : cp \in 8192..8202 }
        \cup {LineSeparator, ParagraphSeparator, Char(8239), Char(8287), Char(12288)}

\* the whole of _repair_purchase_history_csv: lines 84-95
RECURSIVE ScanFrom(_, _, _)
ScanFrom(ls, hl, t) ==
    IF ls # <<>> /\ Len(hl) < MaxHeaderLines
    THEN LET candidate == Join(Append(hl, Head(ls)))
         IN  IF IsHeader(candidate)
             THEN Collapse(candidate) \o <<LF>> \o Join(Tail(ls))
             ELSE ScanFrom(Tail(ls), Append(hl, Head(ls)), t)
    ELSE t

\* lines 64-95
_repair_purchase_history_csv(bytes) ==
    IF HeaderFine(Decode(bytes)) THEN Decode(bytes)
    ELSE LET t == RejoinSplit(Decode(bytes))
         IN  IF splitlines(t) = <<>> THEN <<>>
             ELSE ScanFrom(splitlines(t), <<>>, t)

\* str.strip(): from the first to the last character that is not whitespace
strip(t) ==
    LET kept == { i \in 1..Len(t) : t[i] \notin Whitespace }
    IN  IF kept = {} THEN <<>>
        ELSE SubSeq(t, CHOOSE i \in kept : \A j \in kept : i <= j,
                       CHOOSE i \in kept : \A j \in kept : j <= i)

\* the lines io.StringIO(t) yields: split after each "\n", which is kept
RECURSIVE StringIOLines(_)
StringIOLines(t) ==
    IF t = <<>> THEN <<>>
    ELSE IF Find(t, <<LF>>) = -1 THEN <<t>>
    ELSE <<SubSeq(t, 1, Find(t, <<LF>>) + 1)>>
             \o StringIOLines(SubSeq(t, Find(t, <<LF>>) + 2, Len(t)))

\* _csv.Error raised by the reader, as a record no line gives
CsvError == << <<"_csv.Error">> >>

\* The parser of csv.reader for the excel dialect (delimiter ",", quote
\* character '"' doubled inside a quoted field, not strict).  Its state is
\* the state of the automaton, the fields saved and the field being read.
Parser(state, fields, field) == [state |-> state, fields |-> fields, field |-> field]

\* parse_reset
StartRecord == Parser("START_RECORD", <<>>, <<>>)

\* parse_save_field, going to state `next`
SaveField(p, next) == Parser(next, Append(p.fields, p.field), <<>>)

\* parse_add_char, going to state `next`
AddChar(p, c, next) == Parser(next, p.fields, Append(p.field, c))

\* parse_process_char for one character of a line
ProcessChar(p, c) ==
    CASE p.state = "ERROR" -> p
      [] p.state = "START_RECORD" /\ c \in {LF, CR} ->
            Parser("EAT_CRNL", p.fields, p.field)
      [] p.state \in {"START_RECORD", "START_FIELD"} ->
            IF c \in {LF, CR} THEN SaveField(p, "EAT_CRNL")
            ELSE IF c = Quote THEN Parser("IN_QUOTED_FIELD", p.fields, p.field)
            ELSE IF c = Comma THEN SaveField(p, "START_FIELD")
            ELSE AddChar(p, c, "IN_FIELD")
      [] p.state = "IN_FIELD" ->
            IF c \in {LF, CR} THEN SaveField(p, "EAT_CRNL")
            ELSE IF c = Comma THEN SaveField(p, "START_FIELD")
            ELSE AddChar(p, c, "IN_FIELD")
      [] p.state = "IN_QUOTED_FIELD" ->
            IF c = Quote THEN Parser("QUOTE_IN_QUOTED_FIELD", p.fields, p.field)
            ELSE AddChar(p, c, "IN_QUOTED_FIELD")
      [] p.state = "QUOTE_IN_QUOTED_FIELD" ->
            IF c = Quote THEN AddChar(p, c, "IN_QUOTED_FIELD")
            ELSE IF c = Comma THEN SaveField(p, "START_FIELD")
            ELSE IF c \in {LF, CR} THEN SaveField(p, "EAT_CRNL")
            ELSE AddChar(p, c, "IN_FIELD")
      [] p.state = "EAT_CRNL" ->
            IF c \in {LF, CR} THEN p
            ELSE Parser("ERROR", p.fields, p.field)

\* parse_process_char for the end of a line
ProcessEol(p) ==
    CASE p.state \in {"START_FIELD", "IN_FIELD", "QUOTE_IN_QUOTED_FIELD"} ->
            SaveField(p, "START_RECORD")
      [] p.state = "EAT_CRNL" -> Parser("START_RECORD", p.fields, p.field)
      [] OTHER -> p

\* the characters lo..hi of a line, one after the other; after an error
\* the rest of the line changes nothing
RECURSIVE ProcessChars(_, _, _, _)
ProcessChars(p, line, lo, hi) ==
    IF lo > hi THEN p
    ELSE IF lo = hi THEN ProcessChar(p, line[lo])
    ELSE LET q == ProcessChars(p, line, lo, (lo + hi) \div 2)
         IN  IF q.state = "ERROR" THEN q
             ELSE ProcessChars(q, line, (lo + hi) \div 2 + 1, hi)

\* the loop of Reader.__next__ from the parser state p on the lines ls: the
\* record and the lines left.  A record ends with its line unless a quoted
\* field is open; at the end of the file an open record is returned as it is.
RECURSIVE ReadLines(_, _)
ReadLines(p, ls) ==
    IF ls = <<>> THEN [rec |-> Append(p.fields, p.field), rest |-> <<>>]
    ELSE LET q == ProcessEol(ProcessChars(p, Head(ls), 1, Len(Head(ls))))
         IN  IF q.state = "ERROR" THEN [rec |-> CsvError, rest |-> Tail(ls)]
             ELSE IF q.state = "START_RECORD"
             THEN [rec |-> q.fields, rest |-> Tail(ls)]
             ELSE ReadLines(q, Tail(ls))

\* next(reader) on the lines ls, which are not exhausted
ReadRecord(ls) == ReadLines(StartRecord, ls)

\* DictReader.__next__ after next(self.reader): dict(zip(fieldnames, row)),
\* restval None for the columns a short row lacks, the fields beyond the
\* header under restkey None
NoValue == <<"None">>
DictRow(names, row) ==
    [ cells |->
        [ k \in { names[i] : i \in 1..Len(names) } |->
            IF \E i \in (Len(row) + 1)..Len(names) : names[i] = k THEN NoValue
            ELSE row[CHOOSE i \in 1..Len(names) :
                        /\ names[i] = k
                        /\ \A j \in (i + 1)..Len(names) : names[j] # k] ],
      restkey |-> Len(names) < Len(row) ]

\* line 109: `not row` for the dict DictReader returns
NotRow(d) == DOMAIN d.cells = {} /\ ~d.restkey

\* mutant: the value is not stripped
CellValue_unstripped(v) == IF v = NoValue THEN <<>> ELSE v

\* line 111: (v or "").strip()
CellValue(v) == IF v = NoValue THEN <<>> ELSE strip(v)

\* line 111: {k: (v or "").strip() for k, v in row.items() if k is not None}
CleanRow(d) == [ k \in DOMAIN d.cells |-> CellValue(d.cells[k]) ]

\* the reader's next record that is not [], with the lines left after it;
\* StopIteration when the lines run out
StopIteration == << <<"StopIteration">> >>
RECURSIVE NextRecord(_)
NextRecord(ls) ==
    IF ls = <<>> THEN [rec |-> StopIteration, rest |-> <<>>, skipped |-> 0]
    ELSE IF ReadRecord(ls).rec = <<>>
         THEN LET n == NextRecord(ReadRecord(ls).rest)
              IN  [n EXCEPT !.skipped = @ + 1]
    ELSE [rec |-> ReadRecord(ls).rec, rest |-> ReadRecord(ls).rest, skipped |-> 0]

\* the files explored: a header (intact, split, after a blank line and
\* without user_id and image_id, none, a space) and lines after it, some
\* with the whitespace characters beyond ASCII
FullRowLine == RowPiece \o <<LF>>
ShortRowLine == <<"u", "1", ",", Space, "7", LF>>
LongRowLine == RowPiece \o <<",", "x", LF>>
PaddedRowLine == <<Space, "u", "1", Space, ",", "7", Tab, ",", ",", Space, LF>>
SpaceLine == <<Space, LF>>
CrLfRowLine == <<"u", "1", ",", "7", CR, LF>>
BareCrLine == <<"u", "1", CR, "7", LF>>
QuotedRowLine == <<Quote, "u", ",", Quote, Quote, "1", Quote, ",", Space, "7", LF>>
OpenQuoteLine == <<"u", "1", ",", Quote, "7", FF, LF>>
NbspRowLine ==
    <<"u", "1", ",">> \o NbspBytes \o <<"7">> \o NbspBytes
        \o <<",", "5", ",", "g", "y", "m", LF>>
NelRowLine == <<"u", "1", ",", "7">> \o NelBytes \o <<",", "5", LF>>
NbspLine == NbspBytes \o <<LF>>
WideSpaceRowLine ==
    <<"u", "1", ",">> \o LineSeparatorBytes \o <<"7">> \o IdeographicSpaceBytes
        \o <<LF>>
CsvHeaders ==
    { IntactHeader \o <<LF>>, SplitHeader \o <<LF>>,
      <<LF>> \o RatiPiece \o NgTailPiece \o <<LF>>, <<>>, <<Space>> }
CsvRowLines ==
    { FullRowLine, ShortRowLine, LongRowLine, <<LF>>, PaddedRowLine,
      SpaceLine, CrLfRowLine, BareCrLine, RowPiece, QuotedRowLine,
      OpenQuoteLine, NbspRowLine, NelRowLine, NbspLine, WideSpaceRowLine }
CsvRowSeqs(n) == UNION { [1..k -> CsvRowLines] : k \in 0..n }

LoadIdle ==
    /\ lpc = "off" /\ csv_raw = <<>> /\ csv_text = <<>> /\ reader_lines = <<>>
    /\ fieldnames = <<>> /\ records = <<>> /\ loaded = <<>>

LoadInit ==
    /\ lpc = "read"
    /\ \E h \in CsvHeaders : \E ls \in CsvRowSeqs(MaxCsvRows) :
           csv_raw = h \o Join(ls)
    /\ csv_text = <<>> /\ reader_lines = <<>>
    /\ fieldnames = <<>> /\ records = <<>> /\ loaded = <<>>

\* lines 99-106: read, repair, return [] for a blank text, open the reader
LoadRead ==
    /\ lpc = "read"
    /\ csv_text' = _repair_purchase_history_csv(csv_raw)
    /\ IF strip(_repair_purchase_history_csv(csv_raw)) = <<>>
       THEN /\ lpc' = "done"
            /\ UNCHANGED reader_lines
       ELSE /\ lpc' = "header"
            /\ reader_lines' = StringIOLines(_repair_purchase_history_csv(csv_raw))
    /\ UNCHANGED <<csv_raw, fieldnames, records, loaded>>
    /\ UNCHANGED <<zipVars, cocoVars, joinVars, indexVars, ingestVars, repairVars,
                   polyVars>>

\* line 107, first next(): DictReader.fieldnames reads the first record
LoadHeader ==
    /\ lpc = "header"
    /\ IF ReadRecord(reader_lines).rec = CsvError
       THEN /\ lpc' = "crashed"
            /\ UNCHANGED fieldnames
       ELSE /\ lpc' = "rows"
            /\ fieldnames' = ReadRecord(reader_lines).rec
    /\ reader_lines' = ReadRecord(reader_lines).rest
    /\ UNCHANGED <<csv_raw, csv_text, records, loaded>>
    /\ UNCHANGED <<zipVars, cocoVars, joinVars, indexVars, ingestVars, repairVars,
                   polyVars>>

\* lines 107-111: one iteration of `for row in reader`
LoadRow ==
    /\ lpc = "rows"
    /\ LET n == NextRecord(reader_lines)
       IN  /\ n.rec # StopIteration
           /\ reader_lines' = n.rest
           /\ records' = records \o [i \in 1..n.skipped |-> <<>>]
                            \o (IF n.rec = CsvError THEN <<>> ELSE <<n.rec>>)
           /\ IF n.rec = CsvError
              THEN lpc' = "crashed" /\ UNCHANGED loaded
              ELSE /\ UNCHANGED lpc
                   /\ loaded' =
                        IF NotRow(DictRow(fieldnames, n.rec)) THEN loaded
                        ELSE Append(loaded, CleanRow(DictRow(fieldnames, n.rec)))
    /\ UNCHANGED <<csv_raw, csv_text, fieldnames>>
    /\ UNCHANGED <<zipVars, cocoVars, joinVars, indexVars, ingestVars, repairVars,
                   polyVars>>

\* line 112: the reader is exhausted
LoadReturn ==
    /\ lpc = "rows"
    /\ NextRecord(reader_lines).rec = StopIteration
    /\ lpc' = "done"
    /\ records' = records \o [i \in 1..NextRecord(reader_lines).skipped |-> <<>>]
    /\ reader_lines' = <<>>
    /\ UNCHANGED <<csv_raw, csv_text, fieldnames, loaded>>
    /\ UNCHANGED <<zipVars, cocoVars, joinVars, indexVars, ingestVars, repairVars,
                   polyVars>>

LoadNext == LoadRead \/ LoadHeader \/ LoadRow \/ LoadReturn

\* ========================================================================
\* ingest_polyvore.py

\* most outfits in a generated split file
MaxOutfits == 1

\* line 86: items[:8]
MaxItemsPerOutfit == 8

\* lines 63-67, in the order of the dict
split_map ==
    << <<"train", "train_no_dup.json">>, <<"val", "valid_no_dup.json">>,
       <<"test", "test_no_dup.json">> >>

\* line 32 and line 40
FitbNames == <<"fill_in_blank_test.json", "fill_in_the_blank_test.json">>
CompatNames ==
    <<"fashion_compatibility_prediction.txt", "fashion-compatibility-prediction.txt">>

\* lines 31-36 and 39-44: the first name that exists, or <<>> for the
\* FileNotFoundError
PickFile(names, present) ==
    IF \E i \in 1..Len(names) : names[i] \in present
    THEN <<names[CHOOSE i \in 1..Len(names) :
                /\ names[i] \in present
                /\ \A j \in 1..(i - 1) : names[j] \notin present]>>
    ELSE <<>>

_pick_fitb_file(present) == PickFile(FitbNames, present)
_pick_compat_file(present) == PickFile(CompatNames, present)

\* ---- JSON values of the input files are tagged as above (PStr, PInt,
\* PNone); here a string is its characters
\* the key is not in the dict
Missing == [t |-> "missing", n |-> 0, s |-> <<>>]

DecimalDigits == <<"0", "1", "2", "3", "4", "5", "6", "7", "8", "9">>

\* the decimal digits of a non-negative integer
RECURSIVE Digits(_)
Digits(n) ==
    IF n < 10 THEN <<DecimalDigits[n + 1]>>
    ELSE Append(Digits(n \div 10), DecimalDigits[(n % 10) + 1])

\* str(v), also what an f-string makes of v
PyStr(v) ==
    IF v.t = "str" THEN v.s
    ELSE IF v.t = "int"
    THEN (IF v.n < 0 THEN <<"-">> \o Digits(-v.n) ELSE Digits(v.n))
    ELSE <<"N", "o", "n", "e">>

\* the elements of s before the first one Bad holds for
Before(s, Bad(_)) ==
    IF \E i \in 1..Len(s) : Bad(s[i])
    THEN SubSeq(s, 1, (CHOOSE i \in 1..Len(s) :
                           Bad(s[i]) /\ \A j \in 1..(i - 1) : ~Bad(s[j])) - 1)
    ELSE s

\* line 81: str(o.get("set_id", ""))
SetId(o) == IF o.set_id = Missing THEN <<>> ELSE PyStr(o.set_id)

\* line 91: f"polyvore:{set_id}_{idx}"
PolyItemUid(set_id, idx) == Namespace \o set_id \o <<"_">> \o PyStr(idx)

\* line 86: items[:8]
FirstEight(items) ==
    SubSeq(items, 1, IF Len(items) < MaxItemsPerOutfit THEN Len(items)
                     ELSE MaxItemsPerOutfit)

\* lines 84-101: the first eight items, normalised; `rest` stands for the
\* fields copied as they are (categoryid, name, price, likes, image)
NormItems(set_id, items) ==
    [i \in 1..Len(FirstEight(items)) |->
        [item_uid |-> PolyItemUid(set_id, items[i].index),
         set_id |-> set_id,
         index |-> items[i].index,
         rest |-> items[i].rest]]

\* The loop raises AttributeError at the outfit o: o is not an object
\* (line 81, o.get), or it has a set_id and one of its first eight items is
\* not an object (line 87, it.get).
Raises(o) ==
    \/ ~IsDict(o)
    \/ /\ SetId(o) # <<>>
       /\ \E i \in 1..Len(FirstEight(o.items)) : ~IsDict(o.items[i])

\* line 101: the items counted at the outfit that raises
CountedBeforeRaise(o) ==
    IF ~IsDict(o) THEN 0
    ELSE Len(Before(FirstEight(o.items), LAMBDA it : ~IsDict(it)))

\* lines 103-112; `rest` stands for set_url, date and desc
OutfitRec(split, o) ==
    [source |-> "polyvore", split |-> split,
     outfit_uid |-> Namespace \o SetId(o),
     set_id |-> SetId(o), rest |-> o.rest,
     items |-> NormItems(SetId(o), o.items)]

\* lines 80-114: the records written for the outfits of one split file; an
\* outfit without set_id is skipped
RECURSIVE SplitRecords(_, _)
SplitRecords(split, outfits) ==
    IF outfits = <<>> THEN <<>>
    ELSE (IF SetId(Head(outfits)) = <<>> THEN <<>>
          ELSE <<OutfitRec(split, Head(outfits))>>)
             \o SplitRecords(split, Tail(outfits))

\* sum of len(norm_items) over the records
RECURSIVE ItemsIn(_)
ItemsIn(recs) ==
    IF recs = <<>> THEN 0 ELSE Len(Head(recs).items) + ItemsIn(Tail(recs))

\* lines 124-135
FitbRec(q) ==
    [source |-> "polyvore", question_id |-> q.question,
     blank_position |-> q.blank_position, answers |-> q.answers,
     correct_answer |-> IF q.answers # <<>> THEN <<q.answers[1]>> ELSE <<>>]

\* A file: whether it exists, what it holds ("list", "object", "scalar"
\* for a number, true, false or null, "invalid" for what is not JSON), and
\* in `data` what iterating the value yields: the elements of a list, the
\* keys of an object (a string is iterated like an object, by character).
AbsentFile == [exists |-> FALSE, holds |-> "nothing", data |-> <<>>]
ListFile(d) == [exists |-> TRUE, holds |-> "list", data |-> d]
ObjectFile(keys) == [exists |-> TRUE, holds |-> "object", data |-> keys]
ScalarFile == [exists |-> TRUE, holds |-> "scalar", data |-> <<>>]
InvalidFile == [exists |-> TRUE, holds |-> "invalid", data |-> <<>>]

\* the files explored
NineItemOutfit ==
    [set_id |-> PStr(<<"1">>), rest |-> "o1",
     items |-> [i \in 1..9 |-> [index |-> PInt(i), rest |-> "it"]]]
NoSetIdOutfit ==
    [set_id |-> Missing, rest |-> "o2",
     items |-> <<[index |-> PInt(1), rest |-> "it"]>>]
\* a numeric set_id, and an item without index
NumericIdOutfit ==
    [set_id |-> PInt(12), rest |-> "o3",
     items |-> <<[index |-> PNone, rest |-> "it"]>>]
\* an outfit whose second item is a number
BadItemOutfit ==
    [set_id |-> PInt(7), rest |-> "o4",
     items |-> <<[index |-> PInt(1), rest |-> "it"], PInt(5)>>]
OutfitLists(n) ==
    UNION { [1..k -> {NineItemOutfit, NoSetIdOutfit, NumericIdOutfit}] : k \in 0..n }
\* no file, a file that is not JSON, one holding null, one holding {}, lists
\* of outfits, and two lists that hold something else after an outfit
SplitFileChoices(n) ==
    {AbsentFile, InvalidFile, ScalarFile, ObjectFile(<<>>)}
        \cup { ListFile(d) : d \in OutfitLists(n) }
        \cup { ListFile(<<NumericIdOutfit, PStr(<<"x">>)>>),
               ListFile(<<NumericIdOutfit, BadItemOutfit>>) }
QuestionWithAnswers ==
    [question |-> "q1", blank_position |-> 2, answers |-> <<"1_2", "3_4">>]
QuestionWithoutAnswers ==
    [question |-> "q2", blank_position |-> 1, answers |-> <<>>]
\* for the first name: no file, lists of questions, a list with a number
\* after a question, {}, {"a": ...}, null, a file that is not JSON; for the
\* second name, which is read only when the first is absent, three of them
FitbFileChoices ==
    {AbsentFile, ListFile(<<QuestionWithAnswers>>), ListFile(<<QuestionWithoutAnswers>>),
     ListFile(<<QuestionWithAnswers, PInt(5)>>), ObjectFile(<<>>),
     ObjectFile(<<PStr(<<"a">>)>>), ScalarFile, InvalidFile}
SecondFitbFileChoices ==
    {AbsentFile, ListFile(<<QuestionWithoutAnswers>>), ScalarFile}

NoOutput == [exists |-> FALSE, lines |-> <<>>]
NoFiles == [f \in {} |-> AbsentFile]

PolyIdle ==
    /\ ppc = "off" /\ poly_root_exists = FALSE
    /\ split_files = NoFiles /\ fitb_files = NoFiles /\ compat_files = {}
    /\ psplit = 0 /\ out_outfits = NoOutput /\ out_fitb = NoOutput
    /\ failure = "none"
    /\ outfits_written = 0 /\ items_written = 0 /\ fitb_written = 0

\* the runs explored: no root directory and so no file in it, or a root
\* with any combination of the files above
PolyInit ==
    /\ ppc = "start"
    /\ poly_root_exists \in BOOLEAN
    /\ split_files \in
         [{split_map[i][2] : i \in 1..Len(split_map)} ->
             IF poly_root_exists THEN SplitFileChoices(MaxOutfits) ELSE {AbsentFile}]
    /\ \E first \in (IF poly_root_exists THEN FitbFileChoices ELSE {AbsentFile}) :
       \E second \in (IF poly_root_exists THEN SecondFitbFileChoices ELSE {AbsentFile}) :
           fitb_files = [f \in {FitbNames[i] : i \in 1..Len(FitbNames)} |->
                            IF f = FitbNames[1] THEN first ELSE second]
    /\ compat_files \in
         (IF poly_root_exists THEN SUBSET {CompatNames[i] : i \in 1..Len(CompatNames)}
          ELSE {{}})
    /\ psplit = 0 /\ out_outfits = NoOutput /\ out_fitb = NoOutput
    /\ failure = "none"
    /\ outfits_written = 0 /\ items_written = 0 /\ fitb_written = 0

\* lines 54-72: the root check, then out_outfits is opened for writing
PolyStart ==
    /\ ppc = "start"
    /\ IF ~poly_root_exists
       THEN /\ ppc' = "crashed" /\ failure' = "root"
            /\ UNCHANGED <<psplit, out_outfits>>
       ELSE /\ ppc' = "splits" /\ psplit' = 1
            /\ out_outfits' = [exists |-> TRUE, lines |-> <<>>]
            /\ UNCHANGED failure
    /\ UNCHANGED <<poly_root_exists, split_files, fitb_files, compat_files,
                   out_fitb, outfits_written, items_written, fitb_written>>
    /\ UNCHANGED <<zipVars, cocoVars, joinVars, indexVars, ingestVars, repairVars,
                   loadVars>>

\* lines 73-114: one iteration of the loop over split_map.  The records of
\* the outfits before one that raises are written: the `with` of line 72
\* closes the file on the way out.
PolySplit ==
    /\ ppc = "splits"
    /\ psplit <= Len(split_map)
    /\ LET split == split_map[psplit][1]
           file == split_files[split_map[psplit][2]]
           handled == Before(file.data, Raises)
           recs == SplitRecords(split, handled)
       IN  IF ~file.exists
           THEN /\ ppc' = "crashed" /\ failure' = "split"
                /\ UNCHANGED <<psplit, out_outfits, outfits_written, items_written>>
           ELSE IF file.holds = "invalid"
           THEN /\ ppc' = "crashed" /\ failure' = "json"
                /\ UNCHANGED <<psplit, out_outfits, outfits_written, items_written>>
           ELSE IF file.holds # "list"
           THEN /\ ppc' = "crashed" /\ failure' = "structure"
                /\ UNCHANGED <<psplit, out_outfits, outfits_written, items_written>>
           ELSE /\ out_outfits' = [out_outfits EXCEPT !.lines = @ \o recs]
                /\ outfits_written' = outfits_written + Len(recs)
                /\ IF Len(handled) < Len(file.data)
                   THEN /\ ppc' = "crashed" /\ failure' = "not_a_dict"
                        /\ items_written' =
                             items_written + ItemsIn(recs)
                                 + CountedBeforeRaise(file.data[Len(handled) + 1])
                        /\ UNCHANGED psplit
                   ELSE /\ items_written' = items_written + ItemsIn(recs)
                        /\ psplit' = psplit + 1
                        /\ UNCHANGED <<ppc, failure>>
    /\ UNCHANGED <<poly_root_exists, split_files, fitb_files, compat_files,
                   out_fitb, fitb_written>>
    /\ UNCHANGED <<zipVars, cocoVars, joinVars, indexVars, ingestVars, repairVars,
                   loadVars>>

\* lines 116-140: the FITB file is picked and read, out_fitb opened and
\* written.  Whatever the file holds is iterated, a list or not: a number,
\* true, false or null raises TypeError at line 123, an element that is not
\* an object (the key of an object, a character of a string, a number in a
\* list) raises AttributeError at line 124, after the questions before it
\* were written.
PolyFitb ==
    /\ ppc = "splits"
    /\ psplit > Len(split_map)
    /\ LET present == { f \in DOMAIN fitb_files : fitb_files[f].exists }
           fitb_path == _pick_fitb_file(present)
           file == fitb_files[fitb_path[1]]
           fitb == file.data
           asked == Before(fitb, LAMBDA q : ~IsDict(q))
       IN  IF fitb_path = <<>>
           THEN /\ ppc' = "crashed" /\ failure' = "fitb"
                /\ UNCHANGED <<out_fitb, fitb_written>>
           ELSE IF file.holds = "invalid"
           THEN /\ ppc' = "crashed" /\ failure' = "json"
                /\ UNCHANGED <<out_fitb, fitb_written>>
           ELSE IF file.holds = "scalar"
           THEN /\ ppc' = "crashed" /\ failure' = "not_iterable"
                /\ out_fitb' = [exists |-> TRUE, lines |-> <<>>]
                /\ fitb_written' = 0
           ELSE /\ out_fitb' =
                     [exists |-> TRUE,
                      lines |-> [i \in 1..Len(asked) |-> FitbRec(asked[i])]]
                /\ fitb_written' = Len(asked)
                /\ IF Len(asked) < Len(fitb)
                   THEN ppc' = "crashed" /\ failure' = "not_a_dict"
                   ELSE ppc' = "compat" /\ UNCHANGED failure
    /\ UNCHANGED <<poly_root_exists, split_files, fitb_files, compat_files,
                   psplit, out_outfits, outfits_written, items_written>>
    /\ UNCHANGED <<zipVars, cocoVars, joinVars, indexVars, ingestVars, repairVars,
                   loadVars>>

\* lines 142-148: the compatibility file must be present
PolyCompat ==
    /\ ppc = "compat"
    /\ IF _pick_compat_file(compat_files) = <<>>
       THEN ppc' = "crashed" /\ failure' = "compat"
       ELSE ppc' = "done" /\ UNCHANGED failure
    /\ UNCHANGED <<poly_root_exists, split_files, fitb_files, compat_files,
                   psplit, out_outfits, out_fitb, outfits_written,
                   items_written, fitb_written>>
    /\ UNCHANGED <<zipVars, cocoVars, joinVars, indexVars, ingestVars, repairVars,
                   loadVars>>

PolyNext == PolyStart \/ PolySplit \/ PolyFitb \/ PolyCompat

\* ========================================================================
\* One tool runs at a time.

InitZip == ZipInit /\ CocoIdle /\ JoinIdle /\ IndexIdle /\ IngestIdle /\ RepairIdle
    /\ LoadIdle /\ PolyIdle
InitCoco == ZipIdle /\ CocoInit /\ JoinIdle /\ IndexIdle /\ IngestIdle /\ RepairIdle
    /\ LoadIdle /\ PolyIdle
InitJoin == ZipIdle /\ CocoIdle /\ JoinInit /\ IndexIdle /\ IngestIdle /\ RepairIdle
    /\ LoadIdle /\ PolyIdle
InitIndex == ZipIdle /\ CocoIdle /\ JoinIdle /\ IndexInit /\ IngestIdle /\ RepairIdle
    /\ LoadIdle /\ PolyIdle
InitIngest == ZipIdle /\ CocoIdle /\ JoinIdle /\ IndexIdle /\ IngestInit /\ RepairIdle
    /\ LoadIdle /\ PolyIdle
InitLoad ==
    /\ ZipIdle /\ CocoIdle /\ JoinIdle /\ IndexIdle /\ IngestIdle /\ RepairIdle
    /\ LoadInit /\ PolyIdle
InitPoly ==
    /\ ZipIdle /\ CocoIdle /\ JoinIdle /\ IndexIdle /\ IngestIdle /\ RepairIdle
    /\ LoadIdle /\ PolyInit
InitRepair == ZipIdle /\ CocoIdle /\ JoinIdle /\ IndexIdle /\ IngestIdle /\ RepairInit
    /\ LoadIdle /\ PolyIdle

Init ==
    \/ InitZip \/ InitCoco \/ InitJoin \/ InitIndex \/ InitIngest \/ InitRepair
    \/ InitLoad \/ InitPoly

Next ==
    \/ ZipNext \/ CocoNext \/ JoinNext \/ IndexNext \/ IngestNext \/ RepairNext
    \/ LoadNext \/ PolyNext

Spec == Init /\ [][Next]_vars

SpecZip == InitZip /\ [][ZipNext]_vars
SpecCoco == InitCoco /\ [][CocoNext]_vars
SpecJoin == InitJoin /\ [][JoinNext]_vars
SpecIndex == InitIndex /\ [][IndexNext]_vars
SpecIngest == InitIngest /\ [][IngestNext]_vars
SpecRepair == InitRepair /\ [][RepairNext]_vars
SpecLoad == InitLoad /\ [][LoadNext]_vars
SpecPoly == InitPoly /\ [][PolyNext]_vars

\* ========================================================================
\* Properties of the archive checker (under SpecZip)

\* the line printed by the iteration that has just run
LastLine == report[Len(report)]

\* C1: _check_zip never raises to its caller: for an existing archive and any
\* password, a decryption failure (wrong password, CRC mismatch) or a
\* structural read error becomes a returned (False, message), with a message
\* that tells the two apart, and main prints FAIL for that archive and goes on.
C1_NeverRaises ==
    /\ zpc # "crashed"
    /\ zres.kind = "return"
    /\ zpc = "checked" =>
          \* the failures: the file does not open, the entry read is
          \* encrypted and the password wrong, the entry data is damaged
          /\ zarchive.fault = "badzip" => zres.exc = "BadZipFile"
          /\ (zres.did_read /\ password # CorrectPassword
                /\ EncryptedBit(getinfo(zarchive.listing, zres.sample)) # 0)
             => zres.exc # "-"
          /\ (zres.did_read /\ zarchive.fault \in EntryFaults)
             => zres.exc # "-"
          \* each of them is a returned failure, printed as FAIL
          /\ zres.exc # "-"
             => /\ ~zres.ok
                /\ LastLine = <<AllZips[zi], "FAIL">>
                /\ failed
                /\ zres.msg = (IF zres.exc \in {"RuntimeError", "NotImplementedError"}
                               THEN "decrypt/read failed" ELSE "error")

\* C1 witness: a well-formed archive with an encrypted entry, read with a
\* wrong password that gets past the password check and fails the CRC, has
\* been reported FAIL
C1_Witness ==
    /\ zpc = "checked"
    /\ zarchive.exists /\ zarchive.fault = "none"
    /\ password # CorrectPassword
    /\ zres.did_read
    /\ zres.exc = "BadZipFile"
    /\ zres.msg = "error"
    /\ LastLine[2] = "FAIL"

NoFail == \A i \in 1..Len(report) : report[i][2] # "FAIL"

\* C2: once all four archives are checked, main returns 0 iff no line is
\* FAIL and 3 otherwise; an absent required archive is FAIL, an absent
\* optional archive is SKIP (and does not fail the run), an optional archive
\* that is present but unreadable is FAIL.
C2_ExitCode ==
    /\ (zpc = "done" /\ src_is_dir)
       => /\ Len(report) = Len(ZIP_NAMES) + Len(OPTIONAL_ZIPS)
          /\ \A i \in 1..Len(report) : report[i][1] = AllZips[i]
          /\ exit_code = (IF NoFail THEN 0 ELSE 3)
    /\ zpc = "checked"
       => /\ LastLine[1] = AllZips[zi]
          /\ (~zarchive.exists /\ zi <= Len(ZIP_NAMES) => LastLine[2] = "FAIL")
          /\ (~zarchive.exists /\ zi > Len(ZIP_NAMES) => LastLine[2] = "SKIP")
          /\ (zarchive.exists /\ ~zres.ok => LastLine[2] = "FAIL")
          /\ (LastLine[2] = "OK" <=> zres.ok)

\* C2 witness: a run that ended with exit 0 although the optional archive
\* was absent
C2_Witness ==
    /\ zpc = "done"
    /\ exit_code = 0
    /\ Len(report) = 4
    /\ report[4] = <<"json_for_validation.zip", "SKIP">>

\* an entry the checker may sample: not a directory, named *.json, bit 0 of
\* the flags set
Samplable(e) ==
    /\ e.filename[Len(e.filename)] # "/"
    /\ Len(e.filename) >= 5
    /\ SubSeq(e.filename, Len(e.filename) - 4, Len(e.filename)) = <<".", "j", "s", "o", "n">>
    /\ e.flag_bits % 2 = 1

\* C3: the sampled entry is the first samplable entry in listing order; with
\* no such entry the result is the failure "no encrypted json entries found",
\* reported FAIL (never OK, never SKIP), and nothing is decrypted.
C3_FirstEncryptedJson ==
    (zpc = "checked" /\ zarchive.exists /\ zarchive.fault # "badzip")
    => LET l == zarchive.listing
           m == { i \in 1..Len(l) : Samplable(l[i]) }
       IN  IF m = {}
           THEN /\ zres = Return(FALSE, "no encrypted json entries found (unexpected)",
                                 None, FALSE)
                /\ LastLine[2] = "FAIL"
           ELSE /\ zres.did_read
                /\ \E i \in m : /\ \A j \in m : i <= j
                                /\ zres.sample = l[i].filename

\* C3 witness: an unencrypted .json entry with a non-zero flag comes first,
\* the sampled entry is the encrypted one after it
C3_Witness ==
    /\ zpc = "checked"
    /\ zarchive.exists /\ zarchive.fault = "none"
    /\ Len(zarchive.listing) = 2
    /\ zarchive.listing[1] = [filename |-> <<"a">> \o DotJson, flag_bits |-> 8]
    /\ zarchive.listing[2] = [filename |-> <<"b">> \o DotJson, flag_bits |-> 1]
    /\ zres.sample = <<"b">> \o DotJson
    /\ zres.ok

\* ========================================================================
\* Properties of the detection converter (under SpecCoco)

\* the visited documents whose image was found, in visiting order
FoundDocs == SelectSeq(visited, LAMBDA d : d.img # None)

\* whether the image directory holds an image for a document
HasImage(f) ==
    \/ (Stem(f) \o <<".", "j", "p", "g">>) \in images_dir
    \/ (Stem(f) \o <<".", "p", "n", "g">>) \in images_dir

\* the (key, value) pairs of the i-th found document iterated so far
PairsDone(i) ==
    LET all == docs[FoundDocs[i].file].items
    IN  IF cpc = "items" /\ i = Len(FoundDocs) THEN SubSeq(all, 1, cur.k) ELSE all

\* every pair iterated so far, in processing order, with the position of its
\* document among the found documents
RECURSIVE PairsUpTo(_)
PairsUpTo(i) ==
    IF i = 0 THEN <<>>
    ELSE PairsUpTo(i - 1)
         \o [j \in 1..Len(PairsDone(i)) |-> [doc |-> i, v |-> PairsDone(i)[j]]]
Processed == PairsUpTo(Len(FoundDocs))

\* a processed pair that is an item with a box of four numbers and an
\* integral category id
IsItem(p) ==
    /\ p.v.item_key /\ p.v.is_dict
    /\ p.v.bounding_box.t = "list"
    /\ Len(p.v.bounding_box.v) = 4
    /\ \A i \in 1..4 : p.v.bounding_box.v[i].t \in {"int", "float"}
    /\ p.v.category_id.t = "int"

X1(p) == p.v.bounding_box.v[1].n
Y1(p) == p.v.bounding_box.v[2].n
X2(p) == p.v.bounding_box.v[3].n
Y2(p) == p.v.bounding_box.v[4].n

\* an item whose box is wider and higher than 1
Proper(p) == IsItem(p) /\ X2(p) - X1(p) > 1 /\ Y2(p) - Y1(p) > 1

ProperItems == SelectSeq(Processed, Proper)

\* C4: every emitted annotation has bbox width > 1 and height > 1 (so area
\* > 1); the annotations are exactly those of the items wider and higher than
\* 1, so an item with x2-x1 <= 1 or y2-y1 <= 1 yields none; the image of
\* every document with an image file is emitted whatever its items are.
C4_NoDegenerateBoxes ==
    /\ \A i \in 1..Len(coco_annotations) :
          /\ coco_annotations[i].bbox[3] > 1
          /\ coco_annotations[i].bbox[4] > 1
          /\ coco_annotations[i].area > 1
    /\ cpc # "crashed" =>
          /\ Len(coco_annotations) = Len(ProperItems)
          /\ Len(coco_images) = Len(FoundDocs)

\* C4 witness: the first item of a document had a box of width exactly 1:
\* no annotation, but the image is there
C4_Witness ==
    /\ cpc = "items"
    /\ cur.k = 1
    /\ Len(Processed) = 1
    /\ IsItem(Processed[1])
    /\ X2(Processed[1]) - X1(Processed[1]) = 1
    /\ coco_annotations = <<>>
    /\ Len(coco_images) = 1

\* a sequence of file names in strictly ascending order
Ascending(fs) == \A i \in 1..Len(fs) - 1 : StrLess(fs[i], fs[i + 1])

\* C5: documents are visited in ascending file name order and the emitted
\* images are numbered 0, 1, 2, ... in that order: the k-th image is the k-th
\* visited document whose image file exists, a skipped document consumes no
\* identifier.
C5_SequentialImageIds ==
    /\ Ascending([i \in 1..Len(visited) |-> visited[i].file] \o annos)
    /\ cpc # "crashed" =>
          /\ { visited[i].file : i \in 1..Len(visited) }
               \cup { annos[i] : i \in 1..Len(annos) } = DOMAIN docs
          /\ \A i \in 1..Len(visited) :
                visited[i].img # None <=> HasImage(visited[i].file)
          /\ Len(coco_images) = Len(FoundDocs)
          /\ \A k \in 1..Len(coco_images) :
                /\ coco_images[k].id = k - 1
                /\ coco_images[k].file_name = FoundDocs[k].img
          /\ image_id = (IF cpc = "items" THEN Len(coco_images) - 1
                         ELSE Len(coco_images))

\* C5 witness: of three documents the second has no image; the third gets id 1
C5_Witness ==
    /\ cpc = "done"
    /\ Len(visited) = 3
    /\ visited[1].img # None
    /\ visited[2].img = None
    /\ visited[3].img # None
    /\ Len(coco_images) = 2
    /\ coco_images[2].id = 1
    /\ coco_images[2].file_name = <<"b">> \o DotJpg

\* C6: the image of a document is <stem>.jpg when that file exists, else
\* <stem>.png when that exists; a document with neither contributes nothing:
\* no image entry, no annotation, no category.  The stem of a document is
\* its name without the ".json" it ends in; the name ".json" has no
\* extension and is its own stem.
C6_ImageFallback ==
    /\ \A i \in 1..Len(visited) :
          LET name == visited[i].file
              stem == IF Len(name) > 5 THEN SubSeq(name, 1, Len(name) - 5)
                      ELSE name
              jpg == stem \o <<".", "j", "p", "g">>
              png == stem \o <<".", "p", "n", "g">>
          IN  visited[i].img = (IF jpg \in images_dir THEN jpg
                                ELSE IF png \in images_dir THEN png
                                ELSE None)
    /\ cpc # "crashed" =>
          /\ Len(coco_images) = Len(FoundDocs)
          /\ \A k \in 1..Len(coco_images) :
                coco_images[k].file_name = FoundDocs[k].img
          /\ \A i \in 1..Len(coco_annotations) :
                coco_annotations[i].image_id + 1 \in 1..Len(FoundDocs)
          /\ \A c \in DOMAIN cat_id_to_name :
                \E i \in 1..Len(Processed) :
                    IsItem(Processed[i]) /\ Processed[i].v.category_id.n = c

\* C6 witness: a run over a document without image, one with both files
\* (.jpg taken) and one with only a .png
C6_Witness ==
    /\ cpc = "done"
    /\ Len(visited) = 3
    /\ visited[1].img = <<"a", "-", "b">> \o DotPng
    /\ visited[2].img = <<"a">> \o DotJpg
    /\ (<<"a">> \o DotPng) \in images_dir
    /\ visited[3].img = None
    /\ Len(coco_images) = 2
    /\ Len(coco_annotations) = 2

\* the documents whose image file exists
WithImage == { f \in DOMAIN docs : HasImage(f) }

Min(a, b) == IF a <= b THEN a ELSE b

\* C7: with a positive cap L the run emits exactly min(L, number of
\* documents with an image file) images, the first ones in file name order;
\* skipped documents do not count; a cap of 0 does not truncate.
C7_Limit ==
    cpc = "done"
    => /\ Len(coco_images) =
            (IF limit > 0 THEN Min(limit, Cardinality(WithImage))
             ELSE Cardinality(WithImage))
       /\ \A k \in 1..Len(coco_images) :
            \E f \in WithImage :
               /\ coco_images[k].file_name \in { Stem(f) \o DotJpg, Stem(f) \o DotPng }
               /\ Cardinality({ g \in WithImage : StrLess(g, f) }) = k - 1

\* C7 witness: cap 1, the first document has no image, two others have one:
\* one image is emitted, the one of the second document
C7_Witness ==
    /\ cpc = "done"
    /\ limit = 1
    /\ Cardinality(WithImage) = 2
    /\ Len(visited) = 2
    /\ visited[1].img = None
    /\ Len(coco_images) = 1
    /\ annos # <<>>

\* a processed item (box of four numbers, integral id) carrying category id c
Carries(p, c) == IsItem(p) /\ p.v.category_id.n = c

\* the output categories hold each id once, in ascending id order
CategoriesAscending ==
    \A i \in 1..Len(coco_categories) - 1 :
        coco_categories[i].id < coco_categories[i + 1].id

\* C8: the output categories hold each category id once, in ascending id
\* order, and the name of an id is that of the first item in processing
\* order that carried the id.
C8_FirstCarrierNames ==
    cpc = "done"
    => /\ CategoriesAscending
       /\ \A k \in 1..Len(coco_categories) :
            \E i \in 1..Len(Processed) :
               /\ Carries(Processed[i], coco_categories[k].id)
               /\ \A j \in 1..(i - 1) : ~Carries(Processed[j], coco_categories[k].id)
               /\ Processed[i].v.category_name.t = "str"
               /\ Processed[i].v.category_name.s = coco_categories[k].name

\* C9: the k-th annotation is that of the k-th item wider and higher than 1:
\* bbox [x1, y1, x2-x1, y2-y1], area (x2-x1)*(y2-y1), the item's category id,
\* iscrowd 0, empty segmentation, ids in sequence, owned by the item's image.
\* The example document (height 300, width 200, box [10,10,50,60], category
\* 3) gives an image of width 200 and height 300 and an annotation with bbox
\* [10,10,40,50] and area 2000.
C9_AnnotationShape ==
    cpc # "crashed"
    => /\ Len(coco_annotations) = Len(ProperItems)
       /\ \A k \in 1..Len(coco_annotations) :
            LET p == ProperItems[k]
            IN  coco_annotations[k] =
                  [id |-> k - 1,
                   image_id |-> p.doc - 1,
                   category_id |-> p.v.category_id.n,
                   bbox |-> <<X1(p), Y1(p), X2(p) - X1(p), Y2(p) - Y1(p)>>,
                   area |-> (X2(p) - X1(p)) * (Y2(p) - Y1(p)),
                   iscrowd |-> 0,
                   segmentation |-> <<>>]
       /\ \A i \in 1..Len(FoundDocs) :
            (docs[FoundDocs[i].file] = ExampleDoc /\ PairsDone(i) = <<ExampleItem>>)
            => /\ coco_images[i].width = 200 /\ coco_images[i].height = 300
               /\ \E k \in 1..Len(coco_annotations) :
                    /\ coco_annotations[k].image_id = coco_images[i].id
                    /\ coco_annotations[k].category_id = 3
                    /\ coco_annotations[k].bbox = <<10, 10, 40, 50>>
                    /\ coco_annotations[k].area = 2000

\* C9 witness: the spec's scenario, one example document with its image
C9_Witness ==
    /\ cpc = "done"
    /\ DOMAIN docs = {FileA}
    /\ docs[FileA] = ExampleDoc
    /\ coco_images = <<[id |-> 0, file_name |-> <<"a">> \o DotJpg,
                        width |-> 200, height |-> 300]>>
    /\ coco_annotations = <<[id |-> 0, image_id |-> 0, category_id |-> 3,
                             bbox |-> <<10, 10, 40, 50>>, area |-> 2000,
                             iscrowd |-> 0, segmentation |-> <<>>]>>

\* ========================================================================
\* Properties of the join step (under SpecJoin)

LocalFields == {"local_image_relpath", "local_image_abspath"}

\* the item's uid has an entry in the loaded index
Indexed(it) == "item_uid" \in DOMAIN it /\ it["item_uid"] \in DOMAIN mapping

\* what the claim says of one item read as `it` and written as `out`, where
\* `kept` are the input fields that must come out unchanged; the absolute
\* path is the one Path.resolve() gives on the run's file system
ItemJoined(it, out, kept) ==
    /\ IF Indexed(it)
       THEN /\ DOMAIN out = DOMAIN it \cup LocalFields
            /\ out["local_image_relpath"] = mapping[it["item_uid"]]
            /\ out["local_image_abspath"] =
                 AbsPath(disk, ImagesRoot, mapping[it["item_uid"]])
       ELSE out = it
    /\ \A f \in kept : f \in DOMAIN out /\ out[f] = it[f]

\* what the claim says of the i-th record read and the i-th record written
RecordJoined(i, exempt) ==
    LET o == fin[i]
        w == fout[i]
    IN  /\ DOMAIN w = DOMAIN o
        /\ \A f \in DOMAIN o \ {"items"} : w[f] = o[f]
        /\ "items" \in DOMAIN o
           => /\ Len(w["items"]) = Len(o["items"])
              /\ \A j \in 1..Len(o["items"]) :
                    ItemJoined(o["items"][j], w["items"][j],
                               DOMAIN o["items"][j] \ exempt)

\* the records written are those of the lines read, in input order: all of
\* them while the run goes on, all but the line it raised at after that
WrittenInInputOrder ==
    /\ total_outfits = Len(fout)
    /\ jpc \in {"lines", "done"} => Len(fout) = Len(fin)
    /\ jpc = "crashed" /\ fin # <<>> => Len(fout) = Len(fin) - 1

\* C10 as stated: an indexed item gains the two local path fields, any other
\* item is written as read, no field present in the input is removed or
\* changed, and records are written in input order.
C10_NoInputFieldChanged ==
    /\ WrittenInInputOrder
    /\ \A i \in 1..Len(fout) : RecordJoined(i, {})

\* C10 amended: as stated, except that for an indexed item the fields
\* local_image_relpath and local_image_abspath are set to the indexed path
\* and to the resolved path of the images root joined with it ("." and ".."
\* folded, symbolic links followed, an absolute indexed path taking the
\* place of the root) even when the input item already had them; every other
\* field of the item and of the record is kept as read.  Records are written
\* in input order, one per non-blank line; when the run stops on an
\* exception, the records of the lines before it are those written.
C10_OnlyLocalPathsChange ==
    /\ WrittenInInputOrder
    /\ \A i \in 1..Len(fout) : RecordJoined(i, LocalFields)

\* C10 witness: with images a link to ../store, a record with an indexed
\* item carrying an extra field and an item without uid has been written:
\* the first gained the two paths, the absolute one through the link, and
\* kept its extra field, the second is as read
C10_Witness ==
    /\ disk = RelLinkDisk
    /\ Len(fout) = 1
    /\ "items" \in DOMAIN fin[1]
    /\ Len(fin[1]["items"]) = 2
    /\ fin[1]["items"][1] = [item_uid |-> UID1, name |-> <<"shirt">>]
    /\ fout[1]["items"][1] =
         [item_uid |-> UID1, name |-> <<"shirt">>,
          local_image_relpath |-> <<"images", "123", "0.jpg">>,
          local_image_abspath |-> <<"/", "data", "store", "123", "0.jpg">>]
    /\ fin[1]["items"][2] = [name |-> <<"scarf">>]
    /\ fout[1]["items"][2] = [name |-> <<"scarf">>]
    /\ fout[1]["likes"] = <<"7">>

\* ------------------------------------------------------------------------
\* C11

\* the positions <<i, j>> of the item references read so far
RefsRead ==
    { r \in (1..Len(fin)) \X (1..MaxRefs) : r[2] <= Len(ItemsOf(fin[r[1]])) }

RefRead(r) == ItemsOf(fin[r[1]])[r[2]]
RefWritten(r) == ItemsOf(fout[r[1]])[r[2]]

\* the uid exists in the index file: a line of it has that item_uid
InIndexFile(uid) ==
    \E k \in 1..Len(item_images) :
        IsDict(item_images[k]) /\ item_images[k].item_uid = uid

\* every ItemUID the records read refer to is in the index file
AllReferencedIndexed ==
    \A r \in RefsRead :
        ItemUid(RefRead(r)) # <<>> => InIndexFile(ItemUid(RefRead(r)))

\* two references to one ItemUID are written with the same absolute path
SameUidSamePath ==
    \A r1, r2 \in RefsRead :
        (ItemUid(RefRead(r1)) # <<>> /\ ItemUid(RefRead(r1)) = ItemUid(RefRead(r2)))
        => /\ "local_image_abspath" \in DOMAIN RefWritten(r1)
           /\ "local_image_abspath" \in DOMAIN RefWritten(r2)
           /\ RefWritten(r1)["local_image_abspath"]
                = RefWritten(r2)["local_image_abspath"]

\* C11: when every ItemUID referenced by the records is in the index file,
\* every reference is resolved, the rate reported is 100%, and two references
\* to the same ItemUID carry the same absolute path.
C11_AllResolvedRate100 ==
    (jpc \in {"lines", "done"} /\ AllReferencedIndexed)
    => /\ resolved = total_items
       /\ SameUidSamePath
       /\ jpc = "done" => pct = 1000

\* ------------------------------------------------------------------------
\* C12

\* C12: no two entries of the index file have the same item_uid and
\* different image paths (the composition "polyvore:<collection>_<index>"
\* is injective over the pairs one run discovers).
C12_InjectiveItemUid ==
    \A i, j \in 1..Len(out_file) :
        out_file[i].item_uid = out_file[j].item_uid
        => out_file[i].image_relpath = out_file[j].image_relpath

\* ------------------------------------------------------------------------
\* C13

\* C13: a run given its images root reports at its end the number of
\* records, of item references and of resolved references with resolved <=
\* references, the percentage is 0 when there is no reference, and the run
\* never stops on a division by zero.
C13_ReportNeverFaults ==
    /\ resolved <= total_items
    /\ images_root_exists => jpc # "crashed"
    /\ join_error # "ZeroDivisionError"
    /\ jpc = "done"
       => /\ pct # NoPct
          /\ pct >= 0 /\ pct <= 1000
          /\ total_items = 0 => pct = 0

\* ------------------------------------------------------------------------
\* C14

\* the .jpg files under the collection directories of a tree
JpgFiles(t) ==
    { p \in (DOMAIN t) \X IndexFileNames :
        t[p[1]].is_dir /\ p[2] \in t[p[1]].files /\ EndsWith(p[2], DotJpg) }

\* the file an entry of the index was written for: the last component of its
\* image path
FileOf(e) ==
    SubSeq(e.image_relpath, rfind(e.image_relpath, "/") + 1, Len(e.image_relpath))

\* C14: after a run the index file holds one entry per .jpg file that was
\* under a collection directory when the run started and nothing else, with
\* exists = true, collections and files in sorted order; a run on an
\* unchanged tree leaves the file identical to the one of the run before.
C14_IdempotentNonMerging ==
    ipc = "done"
    => /\ Len(out_file) = Cardinality(JpgFiles(run_tree))
       /\ written = Len(out_file)
       /\ \A p \in JpgFiles(run_tree) :
             \E i \in 1..Len(out_file) :
                /\ out_file[i].set_id = p[1]
                /\ FileOf(out_file[i]) = p[2]
                /\ EndsWith(out_file[i].image_relpath, p[1] \o <<"/">> \o p[2])
       /\ \A i \in 1..Len(out_file) : out_file[i].exists = TRUE
       /\ \A i, j \in 1..Len(out_file) :
             i < j => \/ StrLess(out_file[i].set_id, out_file[j].set_id)
                      \/ /\ out_file[i].set_id = out_file[j].set_id
                         /\ StrLess(FileOf(out_file[i]), FileOf(out_file[j]))
       /\ (runs >= 2 /\ run_tree = prev_tree) => out_file = prev_out

\* C14 witness: the first run indexed two images of one collection, one of
\* them was removed, and the second run left an index of one entry
C14_Witness ==
    /\ ipc = "done"
    /\ runs = 2
    /\ Len(prev_out) = 2
    /\ prev_out[1].set_id = prev_out[2].set_id
    /\ Len(out_file) = 1
    /\ out_file[1] = prev_out[1] \/ out_file[1] = prev_out[2]

\* a second run on the unchanged tree of two images has ended
C14_WitnessUnchanged ==
    /\ ipc = "done"
    /\ runs = 2
    /\ run_tree = prev_tree
    /\ Len(out_file) = 2
    /\ out_file = prev_out

\* ------------------------------------------------------------------------
\* C15

\* the image files _iter_images finds: <<split, name>> for every *.jpg of an
\* existing split directory
JpgOnDisk ==
    { q \in {TrainName, ValName, TestName} \X SplitFileNames :
        /\ split_dirs[q[1]].exists
        /\ q[2] \in split_dirs[q[1]].files
        /\ EndsWith(q[2], DotJpg) }

\* some purchase-history row names the image
HasRow(iid) ==
    \E i \in 1..Len(rows) :
        "image_id" \in DOMAIN rows[i] /\ rows[i]["image_id"] = iid

MetaFields == {"user_ids", "items", "seasons", "occasions", "ratings"}

\* the records written so far for images without a row
Unmatched == { i \in 1..Len(manifest) : ~HasRow(manifest[i].image_id) }
\* ------------------------------------------------------------------------
\* C16

\* C16: no two records written in one run share an outfit_uid, and every
\* record's outfit_uid is "<split>:<stem>".
C16_DistinctOutfitUids ==
    /\ \A i, j \in 1..Len(manifest) :
          i # j => manifest[i].outfit_uid # manifest[j].outfit_uid
    /\ \A i \in 1..Len(manifest) :
          manifest[i].outfit_uid =
             manifest[i].split \o <<":">> \o manifest[i].image_id

\* ------------------------------------------------------------------------
\* C17

\* (split, identifier) of one record strictly before that of another
SplitIdBefore(a, b) ==
    IF a.split # b.split THEN StrLess(a.split, b.split)
    ELSE StrLess(a.image_id, b.image_id)

\* C17: the records are written in ascending order of (split, identifier),
\* and two records with the same (split, identifier) in the order of their
\* file names, so the sequence written is fixed by the set of images.
C17_AscendingSplitId ==
    \A i, j \in 1..Len(manifest) :
        i < j
        => \/ SplitIdBefore(manifest[i], manifest[j])
           \/ /\ manifest[i].split = manifest[j].split
              /\ manifest[i].image_id = manifest[j].image_id
              /\ StrLess(manifest[i].image_relpath, manifest[j].image_relpath)

\* C17 witness: the images were enumerated as train/1-.jpg, train/1.jpg,
\* test/1.jpg and written as test:1, train:1, train:1-
C17_Witness ==
    /\ dpc = "done"
    /\ Len(images) = 3
    /\ images[1].outfit_uid = <<"t", "r", "a", "i", "n", ":", "1", "-">>
    /\ images[2].outfit_uid = <<"t", "r", "a", "i", "n", ":", "1">>
    /\ images[3].outfit_uid = <<"t", "e", "s", "t", ":", "1">>
    /\ Len(manifest) = 3
    /\ manifest[1].outfit_uid = images[3].outfit_uid
    /\ manifest[2].outfit_uid = images[2].outfit_uid
    /\ manifest[3].outfit_uid = images[1].outfit_uid

\* ------------------------------------------------------------------------
\* C18

\* the text up to its first "\n" (all of it when it has none)
FirstLineOf(t) ==
    IF Find(t, <<LF>>) = -1 THEN t ELSE SubSeq(t, 1, Find(t, <<LF>>))

\* the text after its first "\n"
AfterFirstLine(t) ==
    IF Find(t, <<LF>>) = -1 THEN <<>> ELSE SubSeq(t, Find(t, <<LF>>) + 2, Len(t))

StartsWith(t, pre) == Len(t) >= Len(pre) /\ SubSeq(t, 1, Len(pre)) = pre

AllFourMarkers(t) ==
    /\ Contains(UserIdMarker, t) /\ Contains(ImageIdMarker, t)
    /\ Contains(RatingMarker, t) /\ Contains(OccasionMarker, t)

\* a line of splitlines(keepends=True) without its line break
Chomp(l) ==
    IF Len(l) > 1 /\ l[Len(l) - 1] = CR /\ l[Len(l)] = LF
    THEN SubSeq(l, 1, Len(l) - 2)
    ELSE IF l # <<>> /\ l[Len(l)] \in LineBreaks THEN SubSeq(l, 1, Len(l) - 1)
    ELSE l

\* the header has "rating" split across the first line boundary, whatever
\* line break makes it ("\n", "\r\n" or another one str.splitlines breaks
\* at): the first line ends with "rati" and has no whole "rating", the
\* second starts with "ng", and the two together name user_id, image_id and
\* occasion
RatingSplitAcrossLines(t) ==
    /\ Len(splitlines(t)) >= 2
    /\ EndsWith(Chomp(splitlines(t)[1]), <<"r", "a", "t", "i">>)
    /\ ~Contains(RatingMarker, Chomp(splitlines(t)[1]))
    /\ StartsWith(splitlines(t)[2], <<"n", "g">>)
    /\ AllFourMarkers(Chomp(splitlines(t)[1]) \o Chomp(splitlines(t)[2]))

\* C18: for an input whose header has "rating" split across the first line
\* boundary ("rati" at the end of the first line, "ng" at the start of the
\* next) and otherwise names user_id, image_id and occasion, the first line
\* of the repaired text (the text up to its first "\n") contains all four
\* markers; when the scan built it, it ends with a "\n" and holds no
\* carriage return.
C18_SplitHeaderRepaired ==
    (rpc = "done" /\ RatingSplitAcrossLines(Decode(raw)))
    => /\ via \in {"scan", "fallback"}
       /\ AllFourMarkers(FirstLineOf(repaired))
       /\ via = "scan"
            => /\ Find(repaired, <<LF>>) # -1
               /\ ~Contains(<<CR>>, FirstLineOf(repaired))

\* ------------------------------------------------------------------------
\* C19

\* C19: for an input whose first line contains all four markers the repair
\* returns the decoded text unchanged, also when the input is the header
\* line alone without a line terminator.
C19_IntactHeaderUnchanged ==
    (rpc = "done" /\ AllFourMarkers(FirstLineOf(Decode(raw))))
    => repaired = Decode(raw)

\* ------------------------------------------------------------------------
\* C20

\* C20: when the scan ends without a header the repair returns the decoded
\* input, character for character.
C20_FallbackReturnsInput ==
    (rpc = "done" /\ via = "fallback") => repaired = Decode(raw)

\* ------------------------------------------------------------------------
\* C21

\* C21: the repair returns through the fast path only when the first line
\* of the decoded input contains all four markers (user_id, image_id,
\* rating, occasion); a first line lacking one of them is never returned
\* unmodified by the fast path.
C21_FastPathNeedsAllFour ==
    (rpc = "done" /\ via = "fast") => AllFourMarkers(FirstLineOf(Decode(raw)))

\* ------------------------------------------------------------------------
\* C22

\* the scan consumed the first lines of the text it split, at most five of
\* them, stopped at the first concatenation with all four markers, and
\* returned that concatenation without its line breaks, a newline, and the
\* lines it did not consume
ScanConsumedHeader ==
    /\ header_lines \o csv_lines = splitlines(text)
    /\ Len(header_lines) \in 1..MaxHeaderLines
    /\ AllFourMarkers(Join(header_lines))
    /\ \A k \in 1..(Len(header_lines) - 1) :
           ~AllFourMarkers(Join(SubSeq(header_lines, 1, k)))
    /\ repaired = Without(Without(Join(header_lines), CR), LF) \o <<LF>>
                      \o Join(csv_lines)

\* C22: a scan that finds the header consumed at most five lines, stopped at
\* the first concatenation containing all four markers, and returned that
\* concatenation with its line breaks removed, a newline, and then the
\* content after the consumed lines, which is the tail of the decoded input
\* character for character.
C22_ScanKeepsBodyVerbatim ==
    (rpc = "done" /\ via = "scan")
    => /\ ScanConsumedHeader
       /\ EndsWith(Decode(raw), Join(csv_lines))

\* the structure of the scan result alone, without the comparison of the
\* body with the input
C22_ScanStructure ==
    (rpc = "done" /\ via = "scan") => ScanConsumedHeader

\* ------------------------------------------------------------------------
\* C23

\* the records the reader returned that have at least one field
WithFields == SelectSeq(records, LAMBDA r : r # <<>>)

\* no whitespace at either end
Trimmed(v) == v = <<>> \/ (Head(v) \notin Whitespace /\ Last(v) \notin Whitespace)

\* every value of every row kept is a string without surrounding whitespace
ValuesTrimmed ==
    \A i \in 1..Len(loaded) : \A k \in DOMAIN loaded[i] : Trimmed(loaded[i][k])

\* the lines after the header whose number of fields is that of the header
MappedOntoHeader ==
    SelectSeq(records, LAMBDA r : r # <<>> /\ Len(r) = Len(fieldnames))

\* C23 as stated: the rows kept are those with exactly as many fields as the
\* header has columns (rows with no fields, with fewer and with more fields
\* are dropped), and every value kept has no surrounding whitespace.
C23_DropsMismatchedRows ==
    lpc = "done"
    => /\ Len(loaded) = Len(MappedOntoHeader)
       /\ ValuesTrimmed

\* C23 (amended): only the lines with no fields are dropped.  Every other
\* line gives one row, in order, with exactly the header's columns: the
\* value of a column (named once in the header) is the line's field at that
\* position without surrounding whitespace, the empty string when the line
\* has fewer fields, and the fields beyond the header's columns are left out.
C23_KeepsShortAndLongRows ==
    lpc = "done"
    => /\ Len(loaded) = Len(WithFields)
       /\ ValuesTrimmed
       /\ \A i \in 1..Len(loaded) :
            /\ DOMAIN loaded[i] = { fieldnames[j] : j \in 1..Len(fieldnames) }
            /\ \A j \in 1..Len(fieldnames) :
                 (\A m \in 1..Len(fieldnames) : m # j => fieldnames[m] # fieldnames[j])
                 => loaded[i][fieldnames[j]] =
                        IF j <= Len(WithFields[i]) THEN strip(WithFields[i][j])
                        ELSE <<>>

\* C23 witness: the header, a blank line and the line "u1, 7" gave the one
\* row user_id "u1", image_id "7", rating "", occasion ""
C23_Witness ==
    /\ lpc = "done"
    /\ csv_raw = IntactHeader \o <<LF, LF>> \o ShortRowLine
    /\ records = << <<>>, << <<"u", "1">>, <<Space, "7">> >> >>
    /\ Len(loaded) = 1
    /\ loaded[1][UserIdMarker] = <<"u", "1">>
    /\ loaded[1][ImageIdMarker] = <<"7">>
    /\ loaded[1][RatingMarker] = <<>>
    /\ loaded[1][OccasionMarker] = <<>>

\* ------------------------------------------------------------------------
\* C24

\* C24: no annotation document and no item aborts the converter run: a
\* document that cannot be parsed or is not a JSON object is skipped like an
\* item that fails validation, and the run goes on to write the bundle.
C24_NoDocumentAbortsRun ==
    cpc # "crashed"

\* ------------------------------------------------------------------------
\* C26

\* C26: in the bundle written, every annotation's image_id is the id of an
\* entry of the images list, every annotation's category_id is the id of an
\* entry of the categories list, and the annotation ids are 0, 1, 2, ... in
\* order.
C26_AnnotationsClosed ==
    cpc = "done"
    => \A i \in 1..Len(coco_annotations) :
          /\ \E j \in 1..Len(coco_images) :
                coco_images[j].id = coco_annotations[i].image_id
          /\ \E j \in 1..Len(coco_categories) :
                coco_categories[j].id = coco_annotations[i].category_id
          /\ coco_annotations[i].id = i - 1

\* the same without the categories: image references and annotation ids
C26_ImagesAndIdsClosed ==
    cpc = "done"
    => \A i \in 1..Len(coco_annotations) :
          /\ \E j \in 1..Len(coco_images) :
                coco_images[j].id = coco_annotations[i].image_id
          /\ coco_annotations[i].id = i - 1

\* ------------------------------------------------------------------------
\* C25

\* the run ended because a required input is absent
EndedOnAbsentInput ==
    ppc = "crashed" /\ failure \in {"root", "split", "fitb", "compat"}

\* C25: a run that ends because a required input (the root, a split file,
\* the FITB file, the compatibility file) is absent has written no record to
\* the outfits manifest and none to the FITB manifest.
C25_FailsBeforeAnyRecord ==
    EndedOnAbsentInput => (out_outfits.lines = <<>> /\ out_fitb.lines = <<>>)

====
